---- MODULE Spec2Model ----
(***************************************************************************)
(* A model of the synchronisation engine of backup-teams:                  *)
(*   - src/src/downloader.py     download_item                             *)
(*   - src/src/db.py             is_file_current, get_archive_etag,        *)
(*                               upsert_archive                            *)
(*   - src/src/teams_scraper.py  _download_with_semaphore, the channel     *)
(*                               fallback, the team fan-out, scrape_all    *)
(*   - src/src/graph_client.py   GraphClient._get, download_file           *)
(*                                                                         *)
(* The specifications of the module:                                       *)
(*   Spec        file submissions running concurrently under the download  *)
(*               semaphore, against the catalog, the disk and S3;          *)
(*   SpecClient  one call of GraphClient._get or download_file against a   *)
(*               server that picks each response;                          *)
(*   SpecRun     scrape_all: the team fan-out, the channel pass with its   *)
(*               fallback, the walker and the per-file handler, with the   *)
(*               outcome of every remote call picked by the environment;   *)
(*   SpecItem    download_item called directly, one call at a time;        *)
(*   SpecDb      db.upsert_archive called with the parameters it declares; *)
(*   SpecWalk    _walk_folder on one folder tree;                          *)
(*   SpecSite    one site drives pass: the resolution of the site id and   *)
(*               the loop over the libraries of the site.                  *)
(***************************************************************************)
EXTENDS Integers, Sequences, FiniteSets, TLC

VARIABLES
    \* ---- Spec: the sync engine
    catalog,    \* archive table: drive_item_id -> row or NoRecord
    remote,     \* the remote store: item -> its current fingerprint (eTag)
    localfs,    \* local_path of each item: the bytes on disk, or Absent
    backups,    \* the backup files beside each local_path: name stamp -> bytes
    s3,         \* the bucket: key of each item -> the object's bytes, or Absent
    bucket,     \* downloader._S3_BUCKET is set (non-empty)
    sem,        \* asyncio.Semaphore._value
    stats,      \* ScrapingStats: files_new, files_skipped, files_error
    task,       \* one record per file submission (_download_with_semaphore)
    \* ---- SpecClient: one GraphClient call
    cl,
    \* ---- SpecRun: scrape_all
    run,        \* scrape_all itself: where it is, what it raised
    rstats,     \* ScrapingStats of the run
    tm,         \* one record per team (_process_team)
    seen401,    \* a remote call of the run has raised the 401 error
    \* ---- SpecWalk: one folder tree under _walk_folder
    wk,         \* node of the tree -> where its walk or its file handler is
    \* ---- SpecSite: one site drives pass
    sr,         \* _process_site_drives: where it is, the calls made, the libraries
    \* ---- SpecPage: one paginated listing
    pg,         \* GraphClient._get_all: the pages of the server, the requests, the results
    \* ---- SpecProf: the owner of one team
    rp          \* _resolve_professor and what _process_team does with its result

vars == <<catalog, remote, localfs, backups, s3, bucket, sem, stats, task, cl,
          run, rstats, tm, seen401, wk, sr, pg, rp>>

syncVars   == <<catalog, remote, localfs, backups, s3, bucket, sem, stats, task>>
clientVars == <<cl>>
runVars    == <<run, rstats, tm, seen401>>
walkVars   == <<wk>>

----------------------------------------------------------------------------
(* Bounds of the model *)

NumTasks == 3       \* file submissions in one run

Items  == {"a", "b"}
Tasks  == 1..NumTasks
Tags   == {1, 2}    \* the fingerprints of a remote file, in the order they appear

\* DOWNLOAD_CONCURRENCY = int(os.getenv("DOWNLOAD_CONCURRENCY", "4")): the size
\* of the semaphore is configuration; the model runs with a size below NumTasks.
DOWNLOAD_CONCURRENCY == 2

None     == "None"          \* Python None / SQL NULL (a string-valued field)
NoneTag  == -1              \* None where an etag is expected
Absent   == -1              \* no file at the path / no object under the key

\* datetime.utcnow() to the second, as versioned_backup_path formats it.
Stamps   == {1, 2}
NoBackups == [i \in Items |-> [ts \in Stamps |-> Absent]]

\* A drive_item_id without a row in archive.
NoRecord == [present |-> FALSE, etag |-> NoneTag, s3_key |-> None]
Row(etag, s3_key) == [present |-> TRUE, etag |-> etag, s3_key |-> s3_key]

----------------------------------------------------------------------------
(* src/src/db.py *)

\* get_archive_etag: SELECT etag FROM archive WHERE drive_item_id = $1
get_archive_etag(cat, id) ==
    IF cat[id].present THEN cat[id].etag ELSE NoneTag

\* A check that never finds the file current.
is_file_current_Never(cat, id, etag) == FALSE

\* is_file_current: stored is not None and stored == current_etag
is_file_current(cat, id, etag) ==
    LET stored == get_archive_etag(cat, id)
    IN  stored # NoneTag /\ stored = etag

\* The keyword-only parameters of db.upsert_archive (all required).
UpsertArchiveParams ==
    {"class_id", "file_name", "file_extension", "local_path", "drive_item_id", "etag"}

\* The SQL of upsert_archive: INSERT ... ON CONFLICT (drive_item_id) DO UPDATE.
\* The INSERT names no s3_key column (it stays NULL); the UPDATE sets etag and
\* leaves s3_key as it is.
upsert_archive_sql(cat, id, etag) ==
    IF cat[id].present
    THEN [cat EXCEPT ![id] = Row(etag, cat[id].s3_key)]
    ELSE [cat EXCEPT ![id] = Row(etag, None)]

----------------------------------------------------------------------------
(* src/src/downloader.py *)

\* The keywords download_item passes to db_mod.upsert_archive.
UpsertCallKwargs ==
    {"class_id", "file_name", "file_extension", "local_path", "drive_item_id",
     "etag", "s3_key"}

\* Python binds a call of a function with keyword-only parameters when every
\* keyword names a parameter and every required parameter is given; otherwise
\* the call raises TypeError before the body runs.
CallBinds ==
    /\ UpsertCallKwargs \subseteq UpsertArchiveParams
    /\ UpsertArchiveParams \subseteq UpsertCallKwargs

\* What download_item returns on a path that does not raise: the function has
\* a bare `return` on the skip path and falls off its end after the upsert.
download_item_result(path) == "None"

\* versioned_backup_path: {stem}_backup_{UTC timestamp}{suffix} beside the
\* original; Path.rename to it replaces a file that already has that name.
versioned_backup_path(files, ts, bytes) == [files EXCEPT ![ts] = bytes]

\* _build_s3_key: the key is derived from local_path, one per item.
build_s3_key(id) == IF id = "a" THEN "backup_teams/a" ELSE "backup_teams/b"

----------------------------------------------------------------------------
(* src/src/teams_scraper.py: ScrapingStats and the per-file handler *)

\* _download_with_semaphore, lines 169-176: the counter chosen by the result.
CountResult(st, result) ==
    IF result = "ok" THEN [st EXCEPT !.files_new = @ + 1]
    ELSE IF result = "skip" THEN [st EXCEPT !.files_skipped = @ + 1]
    ELSE [st EXCEPT !.files_error = @ + 1]

\* The name of the counter CountResult picks.
CounterOf(result) ==
    IF result = "ok" THEN "new" ELSE IF result = "skip" THEN "skipped" ELSE "error"

\* A semaphore that lets one more holder in than it has slots.
SemCanAcquire_OffByOne(v) == v >= 0

\* `async with semaphore`: acquire needs a free slot.
SemCanAcquire(v) == v > 0
SemAcquire(v)    == v - 1

\* An exit of the `async with` block that keeps the slot.
SemRelease_Leak(v) == v

\* The exit of the `async with` block, by return or by exception.
SemRelease(v)    == v + 1

----------------------------------------------------------------------------
(* src/src/graph_client.py: the retry loop of _get and of download_file *)

MAX_RETRIES == 5
BaseDelay   == 2        \* delay = 2.0 at the start of every call

Max(a, b) == IF a >= b THEN a ELSE b

\* The responses the server (or the network) gives to one request.
\* Retry-After is in seconds, as Graph sends it.
HintSeconds == {1, 20}
Payloads    == {"p1", "p2"}
Resp(status, hasHint, hint, body) ==
    [status |-> status, hasHint |-> hasHint, hint |-> hint, body |-> body]
NetError    == Resp("neterr", FALSE, 0, "none")
RateLimited == {Resp("429", FALSE, 0, "none")} \cup
               {Resp("429", TRUE, h, "none") : h \in HintSeconds}
HttpErrors  == {Resp(c, FALSE, 0, "none") : c \in {"403", "404"}}
Unauthorized == Resp("401", FALSE, 0, "none")
Successes   == {Resp("200", FALSE, 0, b) : b \in Payloads}

ClientOff ==
    [out |-> "off", err |-> "none", kind |-> "none", attempt |-> 1,
     delay |-> BaseDelay, reqs |-> 0, sleeps |-> << >>, resps |-> << >>,
     ret |-> "none", names |-> "none"]

\* The state at the start of a call: delay = 2.0, attempt = 1.
ClientCall(kind) ==
    [ClientOff EXCEPT !.out = "run", !.kind = kind]

\* A loop that makes one attempt more than MAX_RETRIES.
LoopContinue_OneMore(st) ==
    IF st.attempt > MAX_RETRIES
    THEN [st EXCEPT !.out = "raised", !.err = "exhausted", !.names = st.kind]
    ELSE [st EXCEPT !.attempt = @ + 1]

\* `continue` in `for attempt in range(1, MAX_RETRIES + 1)`: the next attempt,
\* or, after the last one, the RuntimeError that follows the loop and names the
\* url (or the item) of the call.
LoopContinue(st) ==
    IF st.attempt = MAX_RETRIES
    THEN [st EXCEPT !.out = "raised", !.err = "exhausted", !.names = st.kind]
    ELSE [st EXCEPT !.attempt = @ + 1]

\* A wait that ignores the server's hint.
retry_after_NoHint(r, delay) == delay

\* retry_after = int(resp.headers.get("Retry-After", delay))
retry_after(r, delay) == IF r.hasHint THEN r.hint ELSE delay

\* A 401 handled like a rate limit: wait and try again.
on_401_Retry(st) ==
    LoopContinue([st EXCEPT !.sleeps = Append(@, st.delay), !.delay = st.delay * 2])

\* status 401: raise httpx.HTTPStatusError at once.
on_401(st) == [st EXCEPT !.out = "raised", !.err = "401"]

\* A backoff that grows by the base delay at each failure.
backoff_Linear(delay) == delay + BaseDelay

\* delay *= 2, after the sleep of a network error.
backoff(delay) == delay * 2

\* A backoff that keeps the delay it had unless the hint is longer.
next_delay_NoDoubling(delay, ra) == Max(delay, ra)

\* delay = max(delay * 2, retry_after), after the sleep of a 429.
next_delay(delay, ra) == Max(delay * 2, ra)

\* An error status handled like a network error: wait and try again.
raise_for_status_Retry(st, r) ==
    LoopContinue([st EXCEPT !.sleeps = Append(@, st.delay), !.delay = st.delay * 2])

\* resp.raise_for_status() on a status that is neither 429 nor 401 nor a
\* success: httpx.HTTPStatusError leaves the call on this attempt (a 403 body
\* is logged first, lines 85-96).
raise_for_status(st, r) == [st EXCEPT !.out = "raised", !.err = r.status]

\* GraphClient._get, lines 62-99: one pass of the loop body, given the outcome
\* of self._client.get.
get_step(st, r) ==
    LET sent == [st EXCEPT !.reqs = @ + 1, !.resps = Append(@, r)]
    IN  IF r.status = "neterr"
        THEN LoopContinue([sent EXCEPT !.sleeps = Append(@, st.delay),
                                       !.delay = backoff(st.delay)])
        ELSE IF r.status = "429"
        THEN LET ra == retry_after(r, st.delay)
             IN  LoopContinue([sent EXCEPT !.sleeps = Append(@, ra),
                                           !.delay = next_delay(st.delay, ra)])
        ELSE IF r.status = "401"
        THEN on_401(sent)
        ELSE IF r.status = "200"
        THEN [sent EXCEPT !.out = "returned", !.ret = r.body]
        ELSE raise_for_status(sent, r)

\* A download that has no branch for status 429: raise_for_status meets it.
download_step_NoRateLimit(st, r) ==
    LET sent == [st EXCEPT !.reqs = @ + 1, !.resps = Append(@, r)]
    IN  IF r.status = "neterr"
        THEN LoopContinue([sent EXCEPT !.sleeps = Append(@, st.delay),
                                       !.delay = backoff(st.delay)])
        ELSE IF r.status = "401"
        THEN on_401(sent)
        ELSE IF r.status = "200"
        THEN [sent EXCEPT !.out = "returned", !.ret = r.body]
        ELSE raise_for_status(sent, r)

\* GraphClient.download_file, lines 201-225: one pass of the loop body.
download_step(st, r) ==
    LET sent == [st EXCEPT !.reqs = @ + 1, !.resps = Append(@, r)]
    IN  IF r.status = "neterr"
        THEN LoopContinue([sent EXCEPT !.sleeps = Append(@, st.delay),
                                       !.delay = backoff(st.delay)])
        ELSE IF r.status = "429"
        THEN LET ra == retry_after(r, st.delay)
             IN  LoopContinue([sent EXCEPT !.sleeps = Append(@, ra),
                                           !.delay = next_delay(st.delay, ra)])
        ELSE IF r.status = "401"
        THEN on_401(sent)
        ELSE IF r.status = "200"
        THEN [sent EXCEPT !.out = "returned", !.ret = r.body]
        ELSE raise_for_status(sent, r)

ClientStep(st, r) ==
    IF st.kind = "get" THEN get_step(st, r) ELSE download_step(st, r)

----------------------------------------------------------------------------
(* src/src/teams_scraper.py: the run *)

NumTeams == 2           \* teams returned by list_joined_teams

Teams    == 1..NumTeams
Channels == {1, 2}      \* list_channels returns none, the first or both
Libs     == {1, 2}      \* the non-default libraries list_site_drives returns

MAX_CHANNEL_RETRIES == 0

RunOff == [pc |-> "off", err |-> "none"]

\* The team and channel counters of ScrapingStats.
ZeroRunStats ==
    [teams_total |-> 0, teams_denied |-> 0, teams_fallback |-> 0, channels_total |-> 0]

IdleTeam ==
    [pc |-> "idle", attempt |-> 1, nlist |-> 0, forbidden |-> 0, nprimary |-> 0,
     primary |-> "none", fb |-> 0, dn |-> 0,
     ch |-> [c \in Channels |-> "none"], site |-> FALSE, sitepass |-> 0,
     libs |-> 0]

\* is_forbidden = "403" in str(exc) or "Forbidden" in str(exc), for the errors
\* the client raises: the message of an HTTP 403 holds both.
is_forbidden(exc) == exc = "403"

----------------------------------------------------------------------------
(* src/src/teams_scraper.py: the folder tree of one walk *)

\* One tree deep enough for a walk inside a walk inside a walk: the root R
\* holds a file and a folder, which holds a file and a folder, which holds a
\* file.
Folders == {"R", "D1", "D2"}
Files   == {"F1", "F2", "F3"}
Nodes   == Folders \cup Files

Children(n) ==
    IF n = "R" THEN {"F1", "D1"}
    ELSE IF n = "D1" THEN {"F2", "D2"}
    ELSE IF n = "D2" THEN {"F3"}
    ELSE {}

RECURSIVE Descendants(_)
Descendants(n) ==
    Children(n) \cup UNION {Descendants(c) : c \in Children(n)}

NoWalk == [n \in Nodes |-> "none"]

\* A coroutine that has been started and has not ended.
Running(n) == wk[n] \in {"listing", "gather", "running"}

----------------------------------------------------------------------------
(* src/src/teams_scraper.py: the site drives pass *)

\* _DEFAULT_LIBRARY_NAMES = {"documents", "arquivos", "documentos"}
DEFAULT_LIBRARY_NAMES == {"documents", "arquivos", "documentos"}

\* The names a site gives its libraries, in the order list_site_drives
\* returns them.
LibOrder == <<"Documents", "Aulas", "DOCUMENTOS", "documents", "Provas 2024", "arquivos">>
LibNames == {LibOrder[k] : k \in 1..Len(LibOrder)}

\* str.lower() on the names above.
lower(name) ==
    CASE name = "Documents"   -> "documents"
      [] name = "Aulas"       -> "aulas"
      [] name = "DOCUMENTOS"  -> "documentos"
      [] name = "documents"   -> "documents"
      [] name = "Provas 2024" -> "provas 2024"
      [] name = "arquivos"    -> "arquivos"

\* A test of the name as it is spelt, without lower().
is_default_library_CaseSensitive(name) == name \in DEFAULT_LIBRARY_NAMES

\* _process_site_drives, line 331: drive_name.lower() in _DEFAULT_LIBRARY_NAMES
is_default_library(name) == lower(name) \in DEFAULT_LIBRARY_NAMES

\* The two drive lookups of _get_site_id_for_team, in the order of its list.
DriveLookups == <<"get_group_drive", "get_team_drive">>

\* A resolution that does the remote lookups whether or not it has a hint.
has_hint_Ignored(known) == FALSE

\* _get_site_id_for_team, line 250: `if known_site_id:`
has_hint(known) == known # None

NoLibWork == [upsert |-> 0, root |-> 0, walk |-> 0]

SiteOff ==
    [pc |-> "off", known |-> None, d |-> 1, calls |-> << >>, site_id |-> None,
     drives |-> << >>, k |-> 1, did |-> << >>]

\* No listing is under way.
PageOff ==
    [pc |-> "off", pages |-> << >>, params |-> FALSE, next_url |-> 0,
     results |-> << >>, reqs |-> << >>, ret |-> None]

\* No owner is being resolved.
ProfOff ==
    [pc |-> "off", members |-> << >>, err |-> "none", logged |-> FALSE,
     args |-> None, ret |-> "unset", passes |-> << >>]

----------------------------------------------------------------------------
(* Initial states *)

IdleTask ==
    [pc |-> "idle", item |-> "a", etag |-> 1, seq |-> FALSE, pre |-> NoRecord,
     dl |-> "none", content |-> Absent, up |-> "none", s3arg |-> "unset",
     ups |-> "none", raised |-> FALSE, counted |-> "none", direct |-> FALSE]

\* The statements of download_item run between acquire and release.
InDownloadItem == {"di_check", "di_etag", "di_download", "di_upload", "di_upsert"}

InFlight == {t \in Tasks : task[t].pc \in InDownloadItem}

\* The archive table as earlier runs left it: no row for the item, or a row with
\* the fingerprint the remote file has when the run starts (it becomes stale
\* when the file is edited during the run).
InitRecords == {NoRecord, Row(1, None)}

Init ==
    /\ catalog \in [Items -> InitRecords]
    /\ catalog["b"] = NoRecord
    /\ remote  = [i \in Items |-> 1]
    /\ localfs = [i \in Items |-> IF catalog[i].present THEN catalog[i].etag ELSE Absent]
    /\ backups = NoBackups
    /\ s3      = [i \in Items |-> Absent]
    /\ bucket  \in BOOLEAN
    /\ sem     = DOWNLOAD_CONCURRENCY
    /\ stats   = [files_new |-> 0, files_skipped |-> 0, files_error |-> 0]
    /\ task    = [t \in Tasks |-> IdleTask]
    /\ cl      = ClientOff
    /\ run     = RunOff
    /\ rstats  = ZeroRunStats
    /\ tm      = [t \in Teams |-> IdleTeam]
    /\ seen401 = FALSE
    /\ wk      = NoWalk
    /\ sr      = SiteOff
    /\ pg      = PageOff
    /\ rp      = ProfOff

----------------------------------------------------------------------------
(* Spec: file submissions under the semaphore *)

Done(t) == task[t].pc = "done"

\* _walk_folder, lines 129-139: a file child of a listing becomes a submission.
\* The item dict carries the eTag the listing saw. Submissions are numbered in
\* the order they are made; seq records that every earlier one had finished.
Submit(t) ==
    /\ task[t].pc = "idle"
    /\ \A u \in Tasks : u < t => task[u].pc # "idle"
    /\ \E i \in Items :
        task' = [task EXCEPT ![t] =
                    [@ EXCEPT !.pc = "precheck", !.item = i, !.etag = remote[i],
                              !.seq = \A u \in Tasks : u < t => Done(u)]]
    /\ UNCHANGED <<catalog, remote, localfs, backups, s3, bucket, sem, stats, cl, runVars, wk, sr, pg, rp>>

\* The remote file is edited: its fingerprint advances. Item "a" is the one
\* that is edited during the run; "b" is a new file that stays as it is.
RemoteChange(i) ==
    /\ i = "a"
    /\ remote[i] + 1 \in Tags
    /\ remote' = [remote EXCEPT ![i] = @ + 1]
    /\ UNCHANGED <<catalog, localfs, backups, s3, bucket, sem, stats, task, cl, runVars, wk, sr, pg, rp>>

\* A pre-check that waits for a free slot like the download does.
PreCheckGate_NeedsSlot(v) == v > 0

\* _download_with_semaphore, lines 157-164: the etag check comes before
\* `async with semaphore` and asks nothing of it.
PreCheckGate(v) == TRUE

\* _download_with_semaphore, lines 161-164: the etag check before the semaphore.
PreCheck(t) ==
    /\ task[t].pc = "precheck"
    /\ PreCheckGate(sem)
    /\ LET i == task[t].item
           e == task[t].etag
       IN  IF is_file_current(catalog, i, e)
           THEN /\ stats' = [stats EXCEPT !.files_skipped = @ + 1]
                /\ task' = [task EXCEPT ![t] =
                              [@ EXCEPT !.pc = "done", !.pre = catalog[i],
                                        !.counted = "skipped"]]
           ELSE /\ stats' = stats
                /\ task' = [task EXCEPT ![t] =
                              [@ EXCEPT !.pc = "wait_sem", !.pre = catalog[i]]]
    /\ UNCHANGED <<catalog, remote, localfs, backups, s3, bucket, sem, cl, runVars, wk, sr, pg, rp>>

\* _download_with_semaphore, line 161: is_file_current raises (the catalog
\* cannot be read). The await stands before `async with semaphore` and
\* before the try: the exception leaves the handler for the gather of
\* _walk_folder, which keeps it; no counter is touched.
PreCheckRaises(t) ==
    /\ task[t].pc = "precheck"
    /\ task' = [task EXCEPT ![t] =
                  [@ EXCEPT !.pc = "done", !.pre = catalog[task[t].item],
                            !.raised = TRUE]]
    /\ UNCHANGED <<catalog, remote, localfs, backups, s3, bucket, sem, stats, cl, runVars, wk, sr, pg, rp>>

\* `async with semaphore:` line 167.
Acquire(t) ==
    /\ task[t].pc = "wait_sem"
    /\ SemCanAcquire(sem)
    /\ sem' = SemAcquire(sem)
    /\ task' = [task EXCEPT ![t] = [@ EXCEPT !.pc = "di_check"]]
    /\ UNCHANGED <<catalog, remote, localfs, backups, s3, bucket, stats, cl, runVars, wk, sr, pg, rp>>

\* download_item returned `result` (lines 169-176), or raised (lines 177-179);
\* then the `async with` block releases the slot. A call made directly, as
\* the unit tests make it, has no handler around it: nothing is counted and no
\* slot is held.
Finish(t, tk, raised, path) ==
    LET result == download_item_result(path)
    IN  IF tk.direct
        THEN /\ task' = [task EXCEPT ![t] = [tk EXCEPT !.pc = "done", !.raised = raised]]
             /\ UNCHANGED <<sem, stats, sr, pg, rp>>
        ELSE /\ stats' = IF raised THEN [stats EXCEPT !.files_error = @ + 1]
                         ELSE CountResult(stats, result)
             /\ sem' = SemRelease(sem)
             /\ task' = [task EXCEPT ![t] =
                           [tk EXCEPT !.pc = "done", !.raised = raised,
                                      !.counted = IF raised THEN "error"
                                                  ELSE CounterOf(result)]]

\* download_item, lines 93-95: the etag check under the semaphore.
DI_Check(t) ==
    /\ task[t].pc = "di_check"
    /\ IF is_file_current(catalog, task[t].item, task[t].etag)
       THEN Finish(t, task[t], FALSE, "skip")
       ELSE /\ task' = [task EXCEPT ![t] = [@ EXCEPT !.pc = "di_etag"]]
            /\ UNCHANGED <<sem, stats, sr, pg, rp>>
    /\ UNCHANGED <<catalog, remote, localfs, backups, s3, bucket, cl, runVars, wk, sr, pg, rp>>

\* A download_item that overwrites the local copy without a backup.
NeedsBackup_Never(stored, file) == FALSE

\* download_item, line 99: stored_etag is not None and local_path.exists().
NeedsBackup(stored, file) == stored # NoneTag /\ file # Absent

\* download_item, lines 98-102: a stored etag and a local copy: the copy is
\* renamed to a backup beside it.
DI_GetEtag(t) ==
    /\ task[t].pc = "di_etag"
    /\ LET i == task[t].item
       IN  IF NeedsBackup(get_archive_etag(catalog, i), localfs[i])
           THEN /\ \E ts \in Stamps :
                     backups' = [backups EXCEPT
                                   ![i] = versioned_backup_path(@, ts, localfs[i])]
                /\ localfs' = [localfs EXCEPT ![i] = Absent]
           ELSE UNCHANGED <<backups, localfs, sr, pg, rp>>
    /\ task' = [task EXCEPT ![t] = [@ EXCEPT !.pc = "di_download"]]
    /\ UNCHANGED <<catalog, remote, s3, bucket, sem, stats, cl, runVars, wk, sr, pg, rp>>

\* download_item, lines 106-122: graph.download_file returns the bytes, which
\* are written to local_path; then the upload is started when a bucket is set.
DI_DownloadOk(t) ==
    /\ task[t].pc = "di_download"
    /\ LET i == task[t].item
       IN  /\ localfs' = [localfs EXCEPT ![i] = remote[i]]
           /\ task' = [task EXCEPT ![t] =
                         [@ EXCEPT !.dl = "ok", !.content = remote[i],
                                   !.pc = IF bucket THEN "di_upload" ELSE "di_upsert",
                                   !.s3arg = IF bucket THEN "unset" ELSE None]]
    /\ UNCHANGED <<catalog, remote, backups, s3, bucket, sem, stats, cl, runVars, wk, sr, pg, rp>>

\* A download_item that catches the error of the download and goes on to
\* record the item.
DI_DownloadFail_Swallowed(t) ==
    /\ task[t].pc = "di_download"
    /\ task' = [task EXCEPT ![t] = [@ EXCEPT !.dl = "error", !.pc = "di_upsert",
                                             !.s3arg = None]]
    /\ UNCHANGED <<catalog, remote, localfs, backups, s3, bucket, sem, stats, cl, runVars, wk, sr, pg, rp>>

\* download_item, line 106: graph.download_file raises (retry-exhausted, an HTTP
\* error, a 401); nothing in download_item catches it.
DI_DownloadFail(t) ==
    /\ task[t].pc = "di_download"
    /\ Finish(t, [task[t] EXCEPT !.dl = "error"], TRUE, "raise")
    /\ UNCHANGED <<catalog, remote, localfs, backups, s3, bucket, cl, runVars, wk, sr, pg, rp>>

\* download_item, lines 113-118: storage.upload_file puts the bytes and returns
\* the key.
DI_UploadOk(t) ==
    /\ task[t].pc = "di_upload"
    /\ LET i == task[t].item
       IN  /\ s3' = [s3 EXCEPT ![i] = task[t].content]
           /\ task' = [task EXCEPT ![t] =
                         [@ EXCEPT !.up = "ok", !.s3arg = build_s3_key(i),
                                   !.pc = "di_upsert"]]
    /\ UNCHANGED <<catalog, remote, localfs, backups, bucket, sem, stats, cl, runVars, wk, sr, pg, rp>>

\* A download_item that gives up on the item when the upload fails.
AfterUploadFailure_GiveUp == "give_up"

\* Where download_item goes after a failed upload: lines 119-120 log the
\* exception and fall through to step 6, the catalog upsert.
AfterUploadFailure == "di_upsert"

\* download_item, lines 119-120: storage.upload_file raises; the exception is
\* logged and s3_key stays None.
DI_UploadFail(t) ==
    /\ task[t].pc = "di_upload"
    /\ IF AfterUploadFailure = "di_upsert"
       THEN /\ task' = [task EXCEPT ![t] =
                          [@ EXCEPT !.up = "fail", !.s3arg = None, !.pc = "di_upsert"]]
            /\ UNCHANGED <<sem, stats, sr, pg, rp>>
       ELSE Finish(t, [task[t] EXCEPT !.up = "fail"], FALSE, "upload_failed")
    /\ UNCHANGED <<catalog, remote, localfs, backups, s3, bucket, cl, runVars, wk, sr, pg, rp>>

\* download_item, lines 125-134: the call of db_mod.upsert_archive.
DI_Upsert(t) ==
    /\ task[t].pc = "di_upsert"
    /\ IF CallBinds
       THEN /\ catalog' = upsert_archive_sql(catalog, task[t].item, task[t].etag)
            /\ Finish(t, [task[t] EXCEPT !.ups = "ok"], FALSE, "end")
       ELSE /\ catalog' = catalog
            /\ Finish(t, [task[t] EXCEPT !.ups = "TypeError"], TRUE, "raise")
    /\ UNCHANGED <<remote, localfs, backups, s3, bucket, cl, runVars, wk, sr, pg, rp>>

Next ==
    \/ \E t \in Tasks : Submit(t)
    \/ \E i \in Items : RemoteChange(i)
    \/ \E t \in Tasks : PreCheck(t)
    \/ \E t \in Tasks : Acquire(t)
    \/ \E t \in Tasks : DI_Check(t)
    \/ \E t \in Tasks : DI_GetEtag(t)
    \/ \E t \in Tasks : DI_DownloadOk(t)
    \/ \E t \in Tasks : DI_DownloadFail(t)
    \/ \E t \in Tasks : DI_UploadOk(t)
    \/ \E t \in Tasks : DI_UploadFail(t)
    \/ \E t \in Tasks : DI_Upsert(t)

Spec == Init /\ [][Next]_vars

\* One step of the handler of submission t, whatever the call it awaits
\* answers.
TaskStep(t) ==
    \/ PreCheck(t)
    \/ PreCheckRaises(t)
    \/ Acquire(t)
    \/ DI_Check(t)
    \/ DI_GetEtag(t)
    \/ DI_DownloadOk(t)
    \/ DI_DownloadFail(t)
    \/ DI_UploadOk(t)
    \/ DI_UploadFail(t)
    \/ DI_Upsert(t)

\* Spec with a catalog that can fail to answer the pre-check.
NextDown ==
    \/ Next
    \/ \E t \in Tasks : PreCheckRaises(t)

SpecDown == Init /\ [][NextDown]_vars

\* The id of an item where a fingerprint is expected: a string that no eTag
\* of the item equals, here a number outside Tags.
IdTag(i) == IF i = "a" THEN 10 ELSE 11

\* What a listing holds of item i: its id and, when the drive reports one,
\* its eTag.
Listing(i, tagged) == [id |-> i, tagged |-> tagged, eTag |-> IF tagged THEN remote[i] ELSE NoneTag]

\* A fingerprint that is None when the listing carries no eTag.
item_etag_NoFallback(item) == item.eTag

\* _download_with_semaphore, line 154, and download_item, line 89, both
\* `etag = item.get("eTag", item.get("id"))` on the same item dict: the eTag
\* of the listing, or the item's id when the listing has no eTag key.
item_etag(item) == IF item.tagged THEN item.eTag ELSE IdTag(item.id)

\* _walk_folder, lines 129-139, on a drive whose listings carry no eTag for
\* item "a": the submission's fingerprint is what item_etag makes of the
\* listing.
SubmitListed(t) ==
    /\ task[t].pc = "idle"
    /\ \A u \in Tasks : u < t => task[u].pc # "idle"
    /\ \E i \in Items :
        task' = [task EXCEPT ![t] =
                    [@ EXCEPT !.pc = "precheck", !.item = i,
                              !.etag = item_etag(Listing(i, i # "a")),
                              !.seq = \A u \in Tasks : u < t => Done(u)]]
    /\ UNCHANGED <<catalog, remote, localfs, backups, s3, bucket, sem, stats, cl, runVars, wk, sr, pg, rp>>

\* Item "a" has no record, or the record an earlier sync of its untagged
\* listing wrote: its id as the fingerprint.
InitNoTag ==
    /\ catalog \in [Items -> {NoRecord, Row(IdTag("a"), None)}]
    /\ catalog["b"] = NoRecord
    /\ remote  = [i \in Items |-> 1]
    /\ localfs = [i \in Items |-> IF catalog[i].present THEN 1 ELSE Absent]
    /\ backups = NoBackups
    /\ s3      = [i \in Items |-> Absent]
    /\ bucket  \in BOOLEAN
    /\ sem     = DOWNLOAD_CONCURRENCY
    /\ stats   = [files_new |-> 0, files_skipped |-> 0, files_error |-> 0]
    /\ task    = [t \in Tasks |-> IdleTask]
    /\ cl      = ClientOff
    /\ run     = RunOff
    /\ rstats  = ZeroRunStats
    /\ tm      = [t \in Teams |-> IdleTeam]
    /\ seen401 = FALSE
    /\ wk      = NoWalk
    /\ sr      = SiteOff
    /\ pg      = PageOff
    /\ rp      = ProfOff

NextNoTag ==
    \/ \E t \in Tasks : SubmitListed(t)
    \/ \E i \in Items : RemoteChange(i)
    \/ \E t \in Tasks : PreCheck(t)
    \/ \E t \in Tasks : Acquire(t)
    \/ \E t \in Tasks : DI_Check(t)
    \/ \E t \in Tasks : DI_GetEtag(t)
    \/ \E t \in Tasks : DI_DownloadOk(t)
    \/ \E t \in Tasks : DI_DownloadFail(t)
    \/ \E t \in Tasks : DI_UploadOk(t)
    \/ \E t \in Tasks : DI_UploadFail(t)
    \/ \E t \in Tasks : DI_Upsert(t)

SpecNoTag == InitNoTag /\ [][NextNoTag]_vars

\* The listing submission t came from carried no eTag.
Untagged(t) == task[t].pc # "idle" /\ task[t].etag \notin Tags

\* C35: a submission whose listing carries no eTag has the item's id as its
\* fingerprint, at the pre-check and in download_item; when the catalog holds
\* the item's record at the pre-check, the submission ends there as a skip,
\* without a slot, a download or a write, whatever the remote content is by
\* then.
C35_FingerprintFallback ==
    \A t \in Tasks :
        Untagged(t)
        => /\ task[t].etag = IdTag(task[t].item)
           /\ (task[t].pc # "precheck" /\ task[t].pre.present)
              => /\ Done(t)
                 /\ task[t].counted = "skipped"
                 /\ task[t].dl = "none"
                 /\ task[t].up = "none"
                 /\ task[t].ups = "none"
                 /\ catalog[task[t].item] = task[t].pre
                 /\ localfs[task[t].item] = 1

\* The remote content of the item changed, and a submission listed after the
\* change, without eTag, was skipped.
C35_Witness ==
    \E t \in Tasks :
        /\ Untagged(t)
        /\ task[t].pre.present
        /\ task[t].counted = "skipped"
        /\ remote[task[t].item] = 2
        /\ localfs[task[t].item] = 1
        /\ \E u \in Tasks : u # t /\ Done(u) /\ task[u].item = "b" /\ task[u].dl # "none"

\* A run over a folder with one file that is current and one that is new,
\* with a bucket set.
InitFair ==
    /\ Init
    /\ catalog["a"] = Row(1, None)
    /\ bucket

NextFair ==
    \/ \E t \in Tasks : Submit(t)
    \/ \E t \in Tasks : TaskStep(t)

\* The handlers with the scheduling of the event loop: every remote, storage
\* and catalog call returns or raises, and a coroutine that can run is run,
\* so while some handler can take a step, a step of some handler is taken.
SpecFair == InitFair /\ [][NextFair]_vars /\ WF_vars(\E t \in Tasks : TaskStep(t))

\* C38: a slot is held exactly by the handlers that are inside download_item;
\* every submission ends; so when none is left running all the slots are
\* free.
C38_NoDeadlockNoLeak ==
    /\ [](sem + Cardinality(InFlight) = DOWNLOAD_CONCURRENCY)
    /\ <>[](\A t \in Tasks : task[t].pc \in {"idle", "done"})
    /\ []((\A t \in Tasks : task[t].pc \in {"idle", "done"})
            => sem = DOWNLOAD_CONCURRENCY)

\* Every submission has ended, one of them on an error raised under the
\* semaphore, and all the slots are free.
C38_Witness ==
    /\ \A t \in Tasks : Done(t)
    /\ \E t \in Tasks : task[t].raised /\ task[t].dl = "error"
    /\ sem = DOWNLOAD_CONCURRENCY

\* The submissions the walkers have made so far.
Submitted == {t \in Tasks : task[t].pc # "idle"}

\* C37: every file handed to _download_with_semaphore is counted in exactly
\* one of files_new, files_skipped and files_error, once: a handler that has
\* ended has counted its file, and the three counters add up to the number
\* of handlers that have ended.
C37_EveryFileCountedOnce ==
    /\ \A t \in Tasks : Done(t) => task[t].counted \in {"new", "skipped", "error"}
    /\ stats.files_new + stats.files_skipped + stats.files_error
          = Cardinality({t \in Tasks : Done(t)})

\* C40: the step in which graph.download_file raises inside download_item
\* ends the handler: no upload and no upsert was made or is made for the
\* item, the catalog and the bucket stay as they are, files_error grows by
\* one and the other counters stay.
C40_DownloadFailureLeavesCatalog ==
    [][ \A t \in Tasks :
          (task[t].pc = "di_download" /\ task'[t].dl = "error")
          => /\ task'[t].pc = "done"
             /\ task'[t].up = "none" /\ task'[t].ups = "none"
             /\ task'[t].counted = "error"
             /\ catalog' = catalog /\ s3' = s3
             /\ stats' = [stats EXCEPT !.files_error = @ + 1] ]_vars

\* The download of an item with a catalog record has failed: the handler has
\* ended, the record is the one it had, and the file is counted as an error.
C40_Witness ==
    \E t \in Tasks :
        /\ Done(t) /\ task[t].dl = "error"
        /\ task[t].pre.present /\ catalog[task[t].item] = task[t].pre
        /\ task[t].counted = "error" /\ stats.files_error = 1

----------------------------------------------------------------------------
(* Claims about the sync engine, checked under Spec *)

\* No other submission of the run is about t's item.
Alone(t) ==
    \A u \in Tasks \ {t} : task[u].pc = "idle" \/ task[u].item # task[t].item

\* t's item had a catalog row with another fingerprint when t was called.
Changed(t) == task[t].pre.present /\ task[t].pre.etag # task[t].etag

\* C1: an item with no catalog record and a fingerprint that does not change
\* is synced twice in sequence, the first sync downloading and uploading
\* without a fault: then there is exactly one storage write and one catalog
\* record for the item, and the second sync makes no download and no storage
\* call.
C1_IdempotentSync ==
    \A t1, t2 \in Tasks :
        ( /\ t1 < t2 /\ Done(t1) /\ Done(t2) /\ task[t2].seq
          /\ task[t1].item = task[t2].item /\ task[t1].etag = task[t2].etag
          /\ \A u \in Tasks \ {t1, t2} :
                task[u].pc = "idle" \/ task[u].item # task[t1].item
          /\ ~task[t1].pre.present
          /\ task[t1].dl = "ok" /\ task[t1].up = "ok" )
        => /\ task[t2].dl = "none"
           /\ task[t2].up = "none"
           /\ catalog[task[t1].item].present
           /\ catalog[task[t1].item].etag = task[t1].etag

\* C2: a sync of an item whose fingerprint differs from the catalog's, run
\* without a fault and without a concurrent sync of the same item, downloads
\* the item again and leaves the newest fingerprint in the catalog record.
C2_ChangeDetection ==
    \A t \in Tasks :
        ( /\ Done(t) /\ Changed(t) /\ Alone(t)
          /\ task[t].dl # "error" /\ task[t].up # "fail" )
        => /\ task[t].dl = "ok"
           /\ catalog[task[t].item].present
           /\ catalog[task[t].item].etag = task[t].etag

C4_S3FailureNonFatal ==
    \A t \in Tasks :
        (Done(t) /\ task[t].up = "fail" /\ Alone(t))
        => /\ ~task[t].raised
           /\ localfs[task[t].item] = task[t].content
           /\ task[t].ups = "ok"
           /\ catalog[task[t].item] = Row(task[t].etag, None)

\* C5: at most DOWNLOAD_CONCURRENCY executions of download_item are in flight.
C5_ConcurrencyBound == Cardinality(InFlight) <= DOWNLOAD_CONCURRENCY

\* All slots are taken while a further stale file waits for one.
C5_Witness ==
    /\ Cardinality(InFlight) = DOWNLOAD_CONCURRENCY
    /\ \E t \in Tasks : task[t].pc = "wait_sem"

\* C21: a path that holds a slot and is at the check of download_item ends
\* as a skip when the check finds the item current: what download_item returns
\* on that path makes the handler add one to files_skipped and nothing to
\* files_new and files_error.
C21_DoubleCheckCountsSkip ==
    \A t \in Tasks :
        (task[t].pc = "di_check" /\ ~task[t].direct)
        => LET after == CountResult(stats, download_item_result("skip"))
           IN  /\ after.files_skipped = stats.files_skipped + 1
               /\ after.files_new = stats.files_new
               /\ after.files_error = stats.files_error

\* The catalog holds the fingerprint that submission t carries.
Current(t) ==
    /\ catalog[task[t].item].present
    /\ catalog[task[t].item].etag = task[t].etag

\* C22: a submission at the pre-check whose catalog fingerprint equals its
\* listed one can end there, counted as skipped, with the semaphore as it
\* was, however many slots are held.
C22_PreCheckNeedsNoSlot ==
    \A t \in Tasks :
        (task[t].pc = "precheck" /\ Current(t))
        => ENABLED ( /\ PreCheck(t)
                     /\ task'[t].pc = "done"
                     /\ task'[t].counted = "skipped"
                     /\ task'[t].dl = "none"
                     /\ sem' = sem )

\* A current file is at the pre-check while every slot is held by a download.
C22_Witness ==
    /\ sem = 0
    /\ Cardinality(InFlight) = DOWNLOAD_CONCURRENCY
    /\ \E t \in Tasks : task[t].pc = "precheck" /\ Current(t)

\* The names of the backup files beside the local_path of item i.
BackupNames(i) == {ts \in Stamps : backups[i][ts] # Absent}

\* Every sync of t's item in the run has ended.
Quiet(i) == \A u \in Tasks : task[u].pc = "idle" \/ task[u].item # i \/ Done(u)

\* C13: the sync of an item with no catalog record, with a bucket set and no
\* fault in the download or the upload, downloads the item, puts exactly the
\* downloaded bytes under the item's key, and leaves one catalog record with
\* the item's fingerprint and the key the upload returned.
C13_FirstSyncOfNewItem ==
    \A t \in Tasks :
        ( /\ Done(t) /\ ~task[t].pre.present /\ Alone(t) /\ bucket
          /\ task[t].dl # "error" /\ task[t].up # "fail" )
        => /\ task[t].dl = "ok" /\ task[t].up = "ok"
           /\ s3[task[t].item] = task[t].content
           /\ task[t].ups = "ok"
           /\ catalog[task[t].item] = Row(task[t].etag, build_s3_key(task[t].item))

\* C14: a sync whose download and storage write have succeeded and whose
\* upsert then succeeds is counted as a new file: what download_item returns
\* after the upsert makes the handler add one to files_new and nothing to
\* files_error and files_skipped.
C14_SuccessCountsNew ==
    \A t \in Tasks :
        (task[t].pc = "di_upsert" /\ task[t].dl = "ok" /\ task[t].up # "fail")
        => LET after == CountResult(stats, download_item_result("end"))
           IN  /\ after.files_new = stats.files_new + 1
               /\ after.files_error = stats.files_error
               /\ after.files_skipped = stats.files_skipped

C16_NoBucketStillRecords ==
    \A t \in Tasks :
        (Done(t) /\ ~bucket /\ Alone(t) /\ task[t].dl = "ok")
        => /\ task[t].up = "none"
           /\ s3[task[t].item] = Absent
           /\ task[t].ups = "ok"
           /\ catalog[task[t].item] = Row(task[t].etag, None)

\* C19: once the syncs of an item have ended, its catalog record has a
\* non-null s3_key exactly when an object was put in the bucket for the item.
\* (A record is written by one statement, so no step changes its fingerprint
\* and leaves its locator behind within that statement.)
C19_LocatorIffStored ==
    \A i \in Items :
        (catalog[i].present /\ Quiet(i))
        => (catalog[i].s3_key # None <=> s3[i] # Absent)

\* C20: after the syncs of one item id, two or more in any interleaving and
\* none with a fault in its download or upload, the catalog holds the record
\* of the id, with the fingerprint one of them wrote.
C20_OneRecordUnderRaces ==
    \A i \in Items :
        LET On == {t \in Tasks : task[t].pc # "idle" /\ task[t].item = i}
        IN  ( /\ Cardinality(On) >= 2
              /\ \A t \in On : Done(t) /\ task[t].dl = "ok" /\ task[t].up # "fail" )
            => /\ catalog[i].present
               /\ \E t \in On : catalog[i].etag = task[t].etag

----------------------------------------------------------------------------
(* SpecItem: download_item called directly, one call at a time, as the unit   *)
(* tests call it: no handler, no pre-check and no semaphore around it.        *)

\* The archive rows a call can meet: none, or a row with either fingerprint.
ItemRecords == {NoRecord} \cup {Row(e, None) : e \in Tags}

InitItem ==
    /\ catalog \in [Items -> ItemRecords]
    /\ catalog["b"] = NoRecord
    /\ remote  = [i \in Items |-> 1]
    /\ localfs \in [Items -> {Absent, 1}]
    /\ localfs["b"] = Absent
    /\ backups = NoBackups
    /\ s3      = [i \in Items |-> Absent]
    /\ bucket  \in BOOLEAN
    /\ sem     = DOWNLOAD_CONCURRENCY
    /\ stats   = [files_new |-> 0, files_skipped |-> 0, files_error |-> 0]
    /\ task    = [t \in Tasks |-> IdleTask]
    /\ cl      = ClientOff
    /\ run     = RunOff
    /\ rstats  = ZeroRunStats
    /\ tm      = [t \in Teams |-> IdleTeam]
    /\ seen401 = FALSE
    /\ wk      = NoWalk
    /\ sr      = SiteOff
    /\ pg      = PageOff
    /\ rp      = ProfOff

\* download_item, lines 87-89: a call with the item dict of a listing; the
\* calls are numbered in the order they are made and each starts after the
\* one before it has ended.
DirectCall(t) ==
    /\ task[t].pc = "idle"
    /\ \A u \in Tasks : u < t => Done(u)
    /\ \E i \in Items :
        task' = [task EXCEPT ![t] =
                    [@ EXCEPT !.pc = "di_check", !.item = i, !.etag = remote[i],
                              !.seq = TRUE, !.pre = catalog[i], !.direct = TRUE]]
    /\ UNCHANGED <<catalog, remote, localfs, backups, s3, bucket, sem, stats, cl, runVars, wk, sr, pg, rp>>

NextItem ==
    \/ \E t \in Tasks : DirectCall(t)
    \/ \E i \in Items : RemoteChange(i)
    \/ \E t \in Tasks : DI_Check(t)
    \/ \E t \in Tasks : DI_GetEtag(t)
    \/ \E t \in Tasks : DI_DownloadOk(t)
    \/ \E t \in Tasks : DI_DownloadFail(t)
    \/ \E t \in Tasks : DI_UploadOk(t)
    \/ \E t \in Tasks : DI_UploadFail(t)
    \/ \E t \in Tasks : DI_Upsert(t)

SpecItem == InitItem /\ [][NextItem]_vars

\* C12: a step of download_item taken when the catalog holds the item's
\* fingerprint ends the call there: no download, no upload and no upsert were
\* made, nothing was raised, and the catalog, the local files, the backups
\* and the bucket are as they were.
C12_SkipLeavesUnchanged ==
    [][ \A t \in Tasks :
          ( /\ task[t].pc = "di_check"
            /\ catalog[task[t].item].present
            /\ catalog[task[t].item].etag = task[t].etag
            /\ task'[t] # task[t] )
          => /\ task'[t].pc = "done"
             /\ task'[t].dl = "none" /\ task'[t].up = "none" /\ task'[t].ups = "none"
             /\ ~task'[t].raised
             /\ catalog' = catalog /\ localfs' = localfs
             /\ backups' = backups /\ s3' = s3 ]_vars

\* A direct call on an item with a catalog row has ended without a download.
C12_Witness ==
    \E t \in Tasks :
        /\ Done(t) /\ task[t].direct /\ task[t].dl = "none"
        /\ task[t].pre.present /\ task[t].pre.etag = task[t].etag
        /\ localfs[task[t].item] # Absent

----------------------------------------------------------------------------
(* SpecDb: db.upsert_archive called with the parameters it declares, by       *)
(* callers that each hold the item dict of a listing.                         *)

\* A caller takes the item dict of a listing: the id and the eTag the listing
\* saw.
ListItem(t) ==
    /\ task[t].pc = "idle"
    /\ \A u \in Tasks : u < t => task[u].pc # "idle"
    /\ \E i \in Items :
        task' = [task EXCEPT ![t] =
                    [@ EXCEPT !.pc = "listed", !.item = i, !.etag = remote[i],
                              !.pre = catalog[i], !.direct = TRUE]]
    /\ UNCHANGED <<catalog, remote, localfs, backups, s3, bucket, sem, stats, cl, runVars, wk, sr, pg, rp>>

\* db.upsert_archive, lines 154-181: the INSERT ... ON CONFLICT DO UPDATE runs
\* with the caller's eTag and returns the row id.
DbUpsert(t) ==
    /\ task[t].pc = "listed"
    /\ catalog' = upsert_archive_sql(catalog, task[t].item, task[t].etag)
    /\ task' = [task EXCEPT ![t] = [@ EXCEPT !.pc = "done", !.ups = "ok"]]
    /\ UNCHANGED <<remote, localfs, backups, s3, bucket, sem, stats, cl, runVars, wk, sr, pg, rp>>

NextDb ==
    \/ \E t \in Tasks : ListItem(t)
    \/ \E i \in Items : RemoteChange(i)
    \/ \E t \in Tasks : DbUpsert(t)

SpecDb == Init /\ [][NextDb]_vars

----------------------------------------------------------------------------
(* SpecClient: one call of _get or download_file at a time *)

InitClient ==
    /\ catalog = [i \in Items |-> NoRecord]
    /\ remote  = [i \in Items |-> 1]
    /\ localfs = [i \in Items |-> Absent]
    /\ backups = NoBackups
    /\ s3      = [i \in Items |-> Absent]
    /\ bucket  = FALSE
    /\ sem     = DOWNLOAD_CONCURRENCY
    /\ stats   = [files_new |-> 0, files_skipped |-> 0, files_error |-> 0]
    /\ task    = [t \in Tasks |-> IdleTask]
    /\ cl      = ClientOff
    /\ run     = RunOff
    /\ rstats  = ZeroRunStats
    /\ tm      = [t \in Teams |-> IdleTeam]
    /\ seen401 = FALSE
    /\ wk      = NoWalk
    /\ sr      = SiteOff
    /\ pg      = PageOff
    /\ rp      = ProfOff

\* A caller starts a call (the previous one, if any, has ended).
ClientStart ==
    /\ cl.out # "run"
    /\ \E kind \in {"get", "download"} : cl' = ClientCall(kind)
    /\ UNCHANGED <<syncVars, runVars, wk, sr, pg, rp>>

\* self._client.get raises httpx.ConnectError or httpx.ReadTimeout.
ClientNetError ==
    /\ cl.out = "run"
    /\ cl' = ClientStep(cl, NetError)
    /\ UNCHANGED <<syncVars, runVars, wk, sr, pg, rp>>

ClientRateLimited ==
    /\ cl.out = "run"
    /\ \E r \in RateLimited : cl' = ClientStep(cl, r)
    /\ UNCHANGED <<syncVars, runVars, wk, sr, pg, rp>>

ClientUnauthorized ==
    /\ cl.out = "run"
    /\ cl' = ClientStep(cl, Unauthorized)
    /\ UNCHANGED <<syncVars, runVars, wk, sr, pg, rp>>

ClientHttpError ==
    /\ cl.out = "run"
    /\ \E r \in HttpErrors : cl' = ClientStep(cl, r)
    /\ UNCHANGED <<syncVars, runVars, wk, sr, pg, rp>>

ClientSuccess ==
    /\ cl.out = "run"
    /\ \E r \in Successes : cl' = ClientStep(cl, r)
    /\ UNCHANGED <<syncVars, runVars, wk, sr, pg, rp>>

NextClient ==
    \/ ClientStart
    \/ ClientNetError
    \/ ClientRateLimited
    \/ ClientUnauthorized
    \/ ClientHttpError
    \/ ClientSuccess

SpecClient == InitClient /\ [][NextClient]_vars

----------------------------------------------------------------------------
(* Claims about the protocol client, checked under SpecClient *)

NumResps == Len(cl.resps)

\* Every response before the last one is of a status in S.
EarlierAll(S) == \A k \in 1..(NumResps - 1) : cl.resps[k].status \in S

\* C6: M consecutive 429 responses (M < MAX_RETRIES) and then a success: the
\* call has sent M + 1 requests, has slept once after each 429, for the
\* Retry-After hint where the 429 carried one, and returns the payload of the
\* successful response.
C6_RetryAfterRateLimit ==
    (NumResps >= 1 /\ cl.resps[NumResps].status = "200" /\ EarlierAll({"429"}))
    => /\ NumResps - 1 < MAX_RETRIES
       /\ cl.out = "returned"
       /\ cl.reqs = NumResps
       /\ Len(cl.sleeps) = NumResps - 1
       /\ \A k \in 1..(NumResps - 1) :
             cl.resps[k].hasHint => cl.sleeps[k] = cl.resps[k].hint
       /\ cl.ret = cl.resps[NumResps].body

\* MAX_RETRIES - 1 rate-limited responses, one of them with a hint, then success.
C6_Witness ==
    /\ cl.out = "returned"
    /\ NumResps = MAX_RETRIES
    /\ EarlierAll({"429"})
    /\ \E k \in 1..(NumResps - 1) : cl.resps[k].hasHint
    /\ \E k \in 1..(NumResps - 1) : ~cl.resps[k].hasHint

\* C7: after MAX_RETRIES consecutive attempts that failed with a network error
\* or a 429, the call has raised the retry-exhausted error, which names the
\* call, after exactly MAX_RETRIES requests; no call ever sends more.
C7_RetryExhaustion ==
    /\ cl.reqs <= MAX_RETRIES
    /\ ( /\ NumResps = MAX_RETRIES
         /\ \A k \in 1..NumResps : cl.resps[k].status \in {"neterr", "429"} )
       => /\ cl.out = "raised"
          /\ cl.err = "exhausted"
          /\ cl.names = cl.kind
          /\ cl.reqs = MAX_RETRIES

C7_Witness ==
    /\ cl.err = "exhausted"
    /\ \E k \in 1..NumResps : cl.resps[k].status = "neterr"
    /\ \E k \in 1..NumResps : cl.resps[k].status = "429"

\* C9: a 401 response ends the call on that attempt with the
\* credential-expired error: no sleep follows it and no request either,
\* whatever attempts remain.
C9_UnauthorizedNotRetried ==
    (NumResps >= 1 /\ \E k \in 1..NumResps : cl.resps[k].status = "401")
    => /\ cl.resps[NumResps].status = "401"
       /\ cl.out = "raised"
       /\ cl.err = "401"
       /\ cl.reqs = NumResps
       /\ Len(cl.sleeps) = NumResps - 1

\* A 401 on the first attempt of a download, with the whole budget left.
C9_Witness ==
    /\ cl.err = "401"
    /\ cl.kind = "download"
    /\ cl.attempt = 1

\* C28: a 403 response ends the call on that attempt with the forbidden
\* error: no sleep follows it and no request either.
C28_ForbiddenNotRetried ==
    (NumResps >= 1 /\ \E k \in 1..NumResps : cl.resps[k].status = "403")
    => /\ cl.resps[NumResps].status = "403"
       /\ cl.out = "raised"
       /\ cl.err = "403"
       /\ cl.reqs = NumResps
       /\ Len(cl.sleeps) = NumResps - 1

\* A 403 on the first attempt of _get, with the whole budget left.
C28_Witness ==
    /\ cl.err = "403"
    /\ cl.kind = "get"
    /\ cl.attempt = 1
    /\ cl.sleeps = << >>

\* The step just taken received a 429.
Got429 ==
    /\ Len(cl'.resps) = Len(cl.resps) + 1
    /\ cl'.resps[Len(cl'.resps)].status = "429"

\* What the step just taken slept for, by the rule of the claim: the hint of
\* the response if it has one, else the delay before the step.
SleptFor ==
    LET r == cl'.resps[Len(cl'.resps)]
    IN  IF r.hasHint THEN r.hint ELSE cl.delay

\* C30 as stated: after a 429 the client sleeps for the Retry-After hint if
\* there is one, else for the current delay, and the delay carried to the
\* next attempt is max(current delay, hint).
C30_DelayIsMaxOfCurrentAndHint ==
    [][ Got429 => /\ cl'.sleeps = Append(cl.sleeps, SleptFor)
                  /\ cl'.delay = Max(cl.delay, SleptFor) ]_vars

\* C30 amended: after a 429 the client sleeps for the Retry-After hint if
\* there is one, else for the current delay, and the delay carried to the
\* next attempt is max(2 * current delay, time slept).
C30_DelayIsMaxOfDoubledAndHint ==
    [][ Got429 => /\ cl'.sleeps = Append(cl.sleeps, SleptFor)
                  /\ cl'.delay = Max(cl.delay * 2, SleptFor) ]_vars

\* A 429 with a long hint, then one with a short hint, then one with none:
\* the hint set the delay, then the doubling did, twice.
C30_Witness ==
    /\ cl.sleeps = <<20, 1, 40>>
    /\ cl.delay = 80

RECURSIVE Pow2(_)
Pow2(n) == IF n = 0 THEN 1 ELSE 2 * Pow2(n - 1)

\* The call has met nothing but network errors so far.
OnlyNetErrors(st) == \A k \in 1..Len(st.resps) : st.resps[k].status = "neterr"

\* C31: in a call that has met only network errors, the wait after the k-th
\* of them is 2 * 2^(k-1) seconds; within a call the delay never decreases
\* from one attempt to the next; and a new call starts with the delay 2.
C31_ExponentialBackoff ==
    [][ /\ OnlyNetErrors(cl')
           => /\ Len(cl'.sleeps) = Len(cl'.resps)
              /\ \A k \in 1..Len(cl'.sleeps) : cl'.sleeps[k] = BaseDelay * Pow2(k - 1)
        /\ Len(cl'.resps) = Len(cl.resps) + 1 => cl'.delay >= cl.delay
        /\ (cl.out # "run" /\ cl'.out = "run") => cl'.delay = BaseDelay ]_vars

\* A call has met five network errors and waited 2, 4, 8, 16 and 32 seconds.
C31_Witness ==
    /\ OnlyNetErrors(cl)
    /\ cl.sleeps = <<2, 4, 8, 16, 32>>
    /\ cl.err = "exhausted"

\* C32: whatever the mix of network errors and 429 responses, a call sends
\* at most MAX_RETRIES requests: each response of either kind uses up one
\* attempt, and the call that has sent MAX_RETRIES requests has ended, in a
\* return or in a raised error.
C32_SharedAttemptCap ==
    /\ cl.reqs <= MAX_RETRIES
    /\ cl.reqs = NumResps
    /\ cl.out \in {"off", "run", "returned", "raised"}
    /\ cl.out = "run" => (cl.attempt = cl.reqs + 1 /\ cl.reqs < MAX_RETRIES)
    /\ cl.reqs = MAX_RETRIES => cl.out \in {"returned", "raised"}
    /\ cl.out = "raised" => cl.err # "none"

\* A call has used its five attempts on network errors and 429 responses
\* together, three of one and two of the other.
C32_Witness ==
    /\ cl.reqs = MAX_RETRIES
    /\ cl.err = "exhausted"
    /\ Cardinality({k \in 1..NumResps : cl.resps[k].status = "neterr"}) = 3
    /\ Cardinality({k \in 1..NumResps : cl.resps[k].status = "429"}) = 2

AllResps == {NetError, Unauthorized} \cup RateLimited \cup HttpErrors \cup Successes

\* Two states of a call agree on what the caller and the server see of it.
SamePolicy(g, d) ==
    /\ g.reqs = d.reqs
    /\ g.sleeps = d.sleeps
    /\ g.delay = d.delay
    /\ g.attempt = d.attempt
    /\ g.out = d.out
    /\ g.err = d.err

\* C33: from the same state of a call and for the same response, the loop of
\* download_file and the loop of _get send the same requests, sleep the same
\* delays and end alike; and a download that returns, returns the body of
\* the response it received.
C33_SameRetryPolicy ==
    cl.out = "run"
    => \A r \in AllResps :
          LET g == get_step([cl EXCEPT !.kind = "get"], r)
              d == download_step([cl EXCEPT !.kind = "download"], r)
          IN  /\ SamePolicy(g, d)
              /\ d.out = "returned" => d.ret = r.body

\* A download is at its third attempt, after a network error and a 429 with
\* a hint.
C33_Witness ==
    /\ cl.out = "run"
    /\ cl.kind = "download"
    /\ cl.sleeps = <<2, 20>>
    /\ cl.resps[1].status = "neterr"

----------------------------------------------------------------------------
(* SpecRun: scrape_all, the team fan-out and the passes of each team *)

RemoteErrors == {"403", "401", "error"}     \* forbidden, credential-expired, other

\* The outcomes of a remote call whose caller treats every error alike.
Outcomes == {"none", "error", "401"}

InitRun ==
    /\ catalog = [i \in Items |-> NoRecord]
    /\ remote  = [i \in Items |-> 1]
    /\ localfs = [i \in Items |-> Absent]
    /\ backups = NoBackups
    /\ s3      = [i \in Items |-> Absent]
    /\ bucket  = FALSE
    /\ sem     = DOWNLOAD_CONCURRENCY
    /\ stats   = [files_new |-> 0, files_skipped |-> 0, files_error |-> 0]
    /\ task    = [t \in Tasks |-> IdleTask]
    /\ cl      = ClientOff
    /\ run     = [pc |-> "list_teams", err |-> "none"]
    /\ rstats  = ZeroRunStats
    /\ tm      = [t \in Teams |-> IdleTeam]
    /\ seen401 = FALSE
    /\ wk      = NoWalk
    /\ sr      = SiteOff
    /\ pg      = PageOff
    /\ rp      = ProfOff

Note401(exc) == seen401' = (seen401 \/ exc = "401")

\* scrape_all, lines 501-510: list_joined_teams returns; one _process_team per
\* team is handed to asyncio.gather.
RunListTeamsOk ==
    /\ run.pc = "list_teams"
    /\ run' = [run EXCEPT !.pc = "gather"]
    /\ tm' = [t \in Teams |-> [tm[t] EXCEPT !.pc = "start"]]
    /\ UNCHANGED <<wk, syncVars, cl, rstats, seen401, sr, pg, rp>>

\* scrape_all, line 501: list_joined_teams raises; nothing in scrape_all
\* catches it.
RunListTeamsFail ==
    /\ run.pc = "list_teams"
    /\ \E exc \in RemoteErrors :
        /\ run' = [run EXCEPT !.pc = "raised", !.err = exc]
        /\ Note401(exc)
    /\ UNCHANGED <<wk, syncVars, cl, rstats, tm, sr, pg, rp>>

\* _process_team, lines 442-444: the team is counted, then upsert_curso runs.
\* An error of the catalog leaves _process_team as an exception, which
\* gather(return_exceptions=True) keeps as the team's result.
TeamStart(t) ==
    /\ run.pc = "gather"
    /\ tm[t].pc = "start"
    /\ rstats' = [rstats EXCEPT !.teams_total = @ + 1]
    /\ \E ok \in BOOLEAN :
        tm' = [tm EXCEPT ![t].pc = IF ok THEN "prof" ELSE "failed"]
    /\ UNCHANGED <<wk, syncVars, cl, run, seen401, sr, pg, rp>>

\* _resolve_professor, lines 82-91: get_team_members returns, or raises and
\* the exception is logged.
TeamProfessor(t) ==
    /\ tm[t].pc = "prof"
    /\ \E exc \in Outcomes : Note401(exc)
    /\ tm' = [tm EXCEPT ![t].pc = "channels"]
    /\ UNCHANGED <<wk, syncVars, cl, run, rstats, sr, pg, rp>>

\* _get_channels_with_fallback, lines 192-194: list_channels returns n channels.
TeamListChannelsOk(t) ==
    /\ tm[t].pc = "channels"
    /\ \E n \in {0} \cup Channels :
        tm' = [tm EXCEPT ![t].pc = "chanpass", ![t].nlist = @ + 1,
                         ![t].ch = [c \in Channels |-> IF c <= n THEN "start" ELSE "none"]]
    /\ UNCHANGED <<wk, syncVars, cl, run, rstats, seen401, sr, pg, rp>>

\* A retry loop that allows one attempt more than the constant.
ChannelRetry_OneMore(attempt, exc) ==
    attempt <= MAX_CHANNEL_RETRIES + 1 /\ is_forbidden(exc)

\* _get_channels_with_fallback, line 199: the condition under which the loop
\* sleeps CHANNEL_RETRY_DELAY and goes to its next attempt.
ChannelRetry(attempt, exc) ==
    attempt <= MAX_CHANNEL_RETRIES /\ is_forbidden(exc)

\* A fallback kept for forbidden listings: any other listing error ends the
\* channel discovery of the team with no channels.
AfterListingError_ForbiddenOnly(retry, exc) ==
    IF retry THEN "channels" ELSE IF is_forbidden(exc) THEN "primary" ELSE "site"

\* _get_channels_with_fallback, lines 195-212: after `except Exception` the
\* loop goes on only when it retries; the `else: break`, and the end of the
\* range, lead to get_primary_channel whatever the exception was.
AfterListingError(retry, exc) == IF retry THEN "channels" ELSE "primary"

\* _get_channels_with_fallback, lines 195-206: list_channels raises. A
\* forbidden error with attempts left waits CHANNEL_RETRY_DELAY and tries
\* again; any other case leaves the loop for the primary channel.
TeamListChannelsFail(t) ==
    /\ tm[t].pc = "channels"
    /\ \E exc \in RemoteErrors :
        /\ Note401(exc)
        /\ tm' = [tm EXCEPT
                    ![t].nlist = @ + 1,
                    ![t].forbidden = IF is_forbidden(exc) THEN @ + 1 ELSE @,
                    ![t].attempt = IF ChannelRetry(tm[t].attempt, exc) THEN @ + 1 ELSE @,
                    ![t].pc = AfterListingError(ChannelRetry(tm[t].attempt, exc), exc)]
    /\ UNCHANGED <<wk, syncVars, cl, run, rstats, sr, pg, rp>>

\* A fallback that counts the team as fallback before the lookup has answered.
primary_counts_Early(st, ok) ==
    IF ok THEN [st EXCEPT !.teams_fallback = @ + 1]
    ELSE [st EXCEPT !.teams_fallback = @ + 1, !.teams_denied = @ + 1]

\* _get_channels_with_fallback, lines 212-222: the counter the outcome of
\* get_primary_channel adds to.
primary_counts(st, ok) ==
    IF ok THEN [st EXCEPT !.teams_fallback = @ + 1]
    ELSE [st EXCEPT !.teams_denied = @ + 1]

\* A _process_team that ends a denied team without the site drives pass.
AfterFallback_StopWhenDenied(ok) == IF ok THEN "chanpass" ELSE "done"

\* _process_team, lines 447-471: `if channels is not None:` guards the channel
\* pass only; with None (the team is denied) the site drives pass is next.
AfterFallback(ok) == IF ok THEN "chanpass" ELSE "site"

\* _get_channels_with_fallback, lines 212-222: get_primary_channel returns (the
\* team has this one channel) or raises (the team has none).
TeamPrimary(t) ==
    /\ tm[t].pc = "primary"
    /\ \E exc \in Outcomes :
        LET ok == exc = "none"
            d  == primary_counts(ZeroRunStats, ok)
        IN  /\ Note401(exc)
            /\ rstats' = primary_counts(rstats, ok)
            /\ tm' = [tm EXCEPT
                        ![t].nprimary = @ + 1,
                        ![t].primary = IF ok THEN "ok" ELSE "fail",
                        ![t].fb = @ + d.teams_fallback,
                        ![t].dn = @ + d.teams_denied,
                        ![t].ch = [c \in Channels |-> IF ok /\ c = 1 THEN "start" ELSE "none"],
                        ![t].pc = AfterFallback(ok)]
    /\ UNCHANGED <<wk, syncVars, cl, run, sr, pg, rp>>

\* A channel counter that leaves out the channel whose file root is refused.
channel_counts_OnlyReached(st, ok) ==
    IF ok THEN [st EXCEPT !.channels_total = @ + 1] ELSE st

\* _process_channel, line 388: stats.channels_total += 1, before the lookup of
\* the file root and whatever its outcome.
channel_counts(st, ok) == [st EXCEPT !.channels_total = @ + 1]

\* _process_channel, lines 384-424 up to the walk: the channel is counted, its
\* class upserted, and get_files_folder returns the root or raises, which
\* ends the channel with None.
ChFilesFolder(t, c) ==
    /\ tm[t].pc = "chanpass"
    /\ tm[t].ch[c] = "start"
    /\ \E exc \in Outcomes :
        /\ Note401(exc)
        /\ rstats' = channel_counts(rstats, exc = "none")
        /\ tm' = [tm EXCEPT ![t].ch[c] = IF exc # "none" THEN "done" ELSE "walk"]
    /\ UNCHANGED <<wk, syncVars, cl, run, sr, pg, rp>>

Walking(t, c) == tm[t].ch[c] = "walk"

\* _walk_folder, lines 107-142, with _download_with_semaphore for each file
\* child: the walk of the channel's root ends. What it met is nothing, or an
\* error, or the 401 error, raised by list_drive_children (logged at line
\* 110, the walk returns) or by download_file for a file child (caught at
\* lines 177-179 of the handler). The file counters are those of Spec; here
\* the walk only ends, and _process_channel returns known_site_id (line 424):
\* the siteId of the file root's parentReference, or None when the response
\* held none (lines 409-412).
ChWalk(t, c) ==
    /\ tm[t].pc = "chanpass"
    /\ Walking(t, c)
    /\ \E exc \in Outcomes, sid \in BOOLEAN :
        /\ Note401(exc)
        /\ tm' = [tm EXCEPT ![t].ch[c] = IF sid THEN "done_site" ELSE "done"]
    /\ UNCHANGED <<wk, syncVars, cl, run, rstats, sr, pg, rp>>

\* A channel pass that hands over to the site drives pass at any time.
ChannelPassOver_NoWait(results) == TRUE

\* _process_team, lines 453-467: `await asyncio.gather(..., 
\* return_exceptions=True)` returns when every _process_channel of the team
\* has returned or raised.
ChannelPassOver(results) ==
    \A c \in Channels : results[c] \in {"none", "done", "done_site"}

\* _process_team, lines 468-471: the first non-empty string among the results
\* of this team's channels (here: whether there is one).
site_id_hint(results) == \E c \in Channels : results[c] = "done_site"

\* _process_team, lines 453-471: gather has every channel's result; the first
\* non-empty siteId among them is the hint of the site drives pass, and the
\* results are kept no longer.
TeamJoinChannels(t) ==
    /\ tm[t].pc = "chanpass"
    /\ ChannelPassOver(tm[t].ch)
    /\ tm' = [tm EXCEPT ![t].pc = "site",
                        ![t].site = site_id_hint(tm[t].ch),
                        ![t].ch = [c \in Channels |->
                                     IF tm[t].ch[c] = "none" THEN "none" ELSE "done"]]
    /\ UNCHANGED <<wk, syncVars, cl, run, rstats, seen401, sr, pg, rp>>

\* _process_site_drives, lines 315-325: the site id is the hint or is looked
\* up remotely; without one the pass returns. list_site_drives raises (logged,
\* the pass returns) or returns the libraries; those that are not a default
\* library are walked one after the other.
TeamSiteDrives(t) ==
    /\ tm[t].pc = "site"
    /\ \E exc \in Outcomes, n \in {0} \cup Libs :
        /\ exc # "none" => n = 0
        /\ Note401(exc)
        /\ tm' = [tm EXCEPT
                    ![t].sitepass = @ + 1,
                    ![t].site = FALSE,
                    ![t].libs = n,
                    ![t].pc = IF n = 0 THEN "done" ELSE "libs"]
    /\ UNCHANGED <<wk, syncVars, cl, run, rstats, sr, pg, rp>>

\* _process_site_drives, lines 327-360: one pass of the loop body; libs counts
\* the libraries the `for drive in drives` loop has not reached yet, the one
\* it is at included. upsert_class is awaited outside any try: when it
\* raises, the exception leaves the loop, the pass and _process_team.
\* get_drive_root raising is logged and the loop continues; otherwise the
\* library is walked (the walker logs what it meets and returns).
TeamLibrary(t) ==
    /\ tm[t].pc = "libs"
    /\ \E out \in {"upsert_raises", "no_root", "walked"}, exc \in Outcomes :
        /\ (out = "no_root") => exc # "none"
        /\ (out = "upsert_raises") => exc = "none"
        /\ Note401(exc)
        /\ tm' = [tm EXCEPT
                    ![t].libs = @ - 1,
                    ![t].pc = IF out = "upsert_raises" THEN "failed"
                              ELSE IF tm[t].libs > 1 THEN "libs" ELSE "done"]
    /\ UNCHANGED <<wk, syncVars, cl, run, rstats, sr, pg, rp>>

\* scrape_all, lines 504-513: gather has every team's result, a return or an
\* exception; the stats are returned.
RunReturn ==
    /\ run.pc = "gather"
    /\ \A t \in Teams : tm[t].pc \in {"done", "failed"}
    /\ run' = [run EXCEPT !.pc = "returned"]
    /\ UNCHANGED <<wk, syncVars, cl, rstats, tm, seen401, sr, pg, rp>>

NextRun ==
    \/ RunListTeamsOk
    \/ RunListTeamsFail
    \/ \E t \in Teams : TeamStart(t)
    \/ \E t \in Teams : TeamProfessor(t)
    \/ \E t \in Teams : TeamListChannelsOk(t)
    \/ \E t \in Teams : TeamListChannelsFail(t)
    \/ \E t \in Teams : TeamPrimary(t)
    \/ \E t \in Teams, c \in Channels : ChFilesFolder(t, c)
    \/ \E t \in Teams, c \in Channels : ChWalk(t, c)
    \/ \E t \in Teams : TeamJoinChannels(t)
    \/ \E t \in Teams : TeamSiteDrives(t)
    \/ \E t \in Teams : TeamLibrary(t)
    \/ RunReturn

SpecRun == InitRun /\ [][NextRun]_vars

----------------------------------------------------------------------------
(* SpecWalk: _walk_folder on one tree, from the call of _process_channel (or *)
(* of the library loop) to the return of scrape_all                          *)

InitWalk ==
    /\ catalog = [i \in Items |-> NoRecord]
    /\ remote  = [i \in Items |-> 1]
    /\ localfs = [i \in Items |-> Absent]
    /\ backups = NoBackups
    /\ s3      = [i \in Items |-> Absent]
    /\ bucket  = FALSE
    /\ sem     = DOWNLOAD_CONCURRENCY
    /\ stats   = [files_new |-> 0, files_skipped |-> 0, files_error |-> 0]
    /\ task    = [t \in Tasks |-> IdleTask]
    /\ cl      = ClientOff
    /\ run     = [pc |-> "gather", err |-> "none"]
    /\ rstats  = ZeroRunStats
    /\ tm      = [t \in Teams |-> IdleTeam]
    /\ seen401 = FALSE
    /\ wk      = NoWalk
    /\ sr      = SiteOff
    /\ pg      = PageOff
    /\ rp      = ProfOff

\* _process_channel, lines 416-422: `await _walk_folder(...)` on the root.
WalkCall ==
    /\ run.pc = "gather"
    /\ wk["R"] = "none"
    /\ wk' = [wk EXCEPT !["R"] = "listing"]
    /\ UNCHANGED <<syncVars, cl, runVars, sr, pg, rp>>

\* _walk_folder, lines 107-111: list_drive_children raises; the error is
\* logged and the walk returns.
WalkListFail(n) ==
    /\ wk[n] = "listing"
    /\ wk' = [wk EXCEPT ![n] = "done"]
    /\ UNCHANGED <<syncVars, cl, runVars, sr, pg, rp>>

\* _walk_folder, lines 113-142: the listing returns the children in S; one
\* coroutine is made per child and, when there is any, all are handed to
\* asyncio.gather, which starts every one of them.
WalkList(n) ==
    /\ wk[n] = "listing"
    /\ \E S \in SUBSET Children(n) :
        wk' = [c \in Nodes |->
                 IF c = n THEN (IF S = {} THEN "done" ELSE "gather")
                 ELSE IF c \in S /\ c \in Folders THEN "listing"
                 ELSE IF c \in S THEN "running"
                 ELSE wk[c]]
    /\ UNCHANGED <<syncVars, cl, runVars, sr, pg, rp>>

\* _walk_folder, lines 117-119: sub_folder.mkdir raises for a folder child
\* (a file of that name is in the way): the exception leaves the walk before
\* gather is reached, and the coroutines made so far are never started.
WalkMkdirFail(n) ==
    /\ wk[n] = "listing"
    /\ Children(n) \cap Folders # {}
    /\ wk' = [wk EXCEPT ![n] = "raised"]
    /\ UNCHANGED <<syncVars, cl, runVars, sr, pg, rp>>

\* _download_with_semaphore ends: it returns (skipped, counted new or error),
\* or it raises (the pre-check is outside its try).
WalkFileEnd(f) ==
    /\ f \in Files
    /\ wk[f] = "running"
    /\ \E out \in {"done", "raised"} : wk' = [wk EXCEPT ![f] = out]
    /\ UNCHANGED <<syncVars, cl, runVars, sr, pg, rp>>

\* A gather that returns without waiting for what it started.
ChildrenSettled_FireAndForget(n) == TRUE

\* `await asyncio.gather(*tasks, return_exceptions=True)`: gather returns
\* when every awaitable handed to it has returned or raised.
ChildrenSettled(n) == \A c \in Children(n) : ~Running(c)

\* _walk_folder, line 142: gather returns and the walk with it.
WalkReturn(n) ==
    /\ wk[n] = "gather"
    /\ ChildrenSettled(n)
    /\ wk' = [wk EXCEPT ![n] = "done"]
    /\ UNCHANGED <<syncVars, cl, runVars, sr, pg, rp>>

\* The root walk has ended: _process_channel returns (or the exception of the
\* walk leaves it), the gather of _process_team and the gather of scrape_all
\* (lines 504-513) have their results, and scrape_all returns the stats.
WalkTopReturn ==
    /\ run.pc = "gather"
    /\ wk["R"] \in {"done", "raised"}
    /\ run' = [run EXCEPT !.pc = "returned"]
    /\ UNCHANGED <<syncVars, cl, rstats, tm, seen401, wk, sr, pg, rp>>

NextWalk ==
    \/ WalkCall
    \/ \E n \in Folders : WalkListFail(n)
    \/ \E n \in Folders : WalkList(n)
    \/ \E n \in Folders : WalkMkdirFail(n)
    \/ \E f \in Files : WalkFileEnd(f)
    \/ \E n \in Folders : WalkReturn(n)
    \/ WalkTopReturn

SpecWalk == InitWalk /\ [][NextWalk]_vars

\* C17: a walk that has ended has no descendant walk or file handler still
\* running, and when scrape_all has returned nothing of the tree is running.
C17_StructuredFanOut ==
    /\ \A n \in Folders :
          wk[n] \in {"done", "raised"} => \A d \in Descendants(n) : ~Running(d)
    /\ run.pc = "returned" => \A n \in Nodes : ~Running(n)

\* scrape_all has returned after a walk three folders deep whose files all
\* ran, one of them raising.
C17_Witness ==
    /\ run.pc = "returned"
    /\ \A n \in Folders : wk[n] = "done"
    /\ \A f \in Files : wk[f] \in {"done", "raised"}
    /\ \E f \in Files : wk[f] = "raised"

----------------------------------------------------------------------------
(* Claims about the run, checked under SpecRun *)

\* The channel listing of team t is over and every attempt was forbidden.
ListingForbidden(t) ==
    /\ tm[t].pc \in {"primary", "chanpass", "site", "libs", "done", "failed"}
    /\ tm[t].nlist >= 1
    /\ tm[t].forbidden = tm[t].nlist

Resolved(t) == tm[t].pc \in {"chanpass", "site", "libs", "done", "failed"}

\* C8: when list_channels is forbidden on every attempt for a team,
\* get_primary_channel is called exactly once; the team is counted in
\* teams_fallback when that call succeeds and in teams_denied when it fails;
\* no team is counted in both, and the run's counters are those counts.
C8_DiscoveryFallback ==
    /\ \A t \in Teams :
        (ListingForbidden(t) /\ Resolved(t))
        => /\ tm[t].nprimary = 1
           /\ tm[t].primary = "ok"   => (tm[t].fb = 1 /\ tm[t].dn = 0)
           /\ tm[t].primary = "fail" => (tm[t].fb = 0 /\ tm[t].dn = 1)
    /\ \A t \in Teams : tm[t].nprimary <= 1 /\ tm[t].fb + tm[t].dn <= 1
    /\ rstats.teams_fallback = Cardinality({t \in Teams : tm[t].fb = 1})
    /\ rstats.teams_denied = Cardinality({t \in Teams : tm[t].dn = 1})

\* One team ended as fallback and another as denied, both after a forbidden
\* listing.
C8_Witness ==
    \E t1, t2 \in Teams :
        /\ ListingForbidden(t1) /\ tm[t1].fb = 1
        /\ ListingForbidden(t2) /\ tm[t2].dn = 1

\* C11: when scrape_all returns, what was started beside a failure has run
\* to its end: every team has ended, every channel a team listed has been
\* processed, and every library a site listed has been processed; and
\* scrape_all raises only when list_joined_teams did, before any team started.
C11_FailureIsolation ==
    /\ run.pc = "returned" =>
          \A t \in Teams :
              /\ tm[t].pc \in {"done", "failed"}
              /\ \A c \in Channels : tm[t].ch[c] \in {"none", "done", "done_site"}
              /\ tm[t].libs = 0
    /\ run.pc = "raised" => \A t \in Teams : tm[t].pc = "idle"

\* C18: a team classified denied gets no channel pass and exactly one site
\* drives pass: once the team has left the fallback its pass has started, and
\* no team has more than one.
C18_DeniedStillGetsSitePass ==
    \A t \in Teams :
        /\ tm[t].sitepass <= 1
        /\ tm[t].dn = 1 =>
              /\ tm[t].pc \in {"site", "libs", "done", "failed"}
              /\ \A c \in Channels : tm[t].ch[c] = "none"
              /\ tm[t].pc # "site" => tm[t].sitepass = 1

\* A denied team is in the library loop of its site drives pass.
C18_Witness ==
    \E t \in Teams :
        tm[t].dn = 1 /\ tm[t].pc = "libs" /\ tm[t].sitepass = 1 /\ tm[t].libs = 1

\* One step of team t in which something failed: _process_team leaves with
\* an exception (from upsert_curso, or from upsert_class in the library
\* loop), or the lookup of a channel's file root is refused.
FailureStep(t) ==
    \/ tm[t].pc \in {"start", "libs"} /\ tm'[t].pc = "failed"
    \/ \E c \in Channels : tm[t].ch[c] = "start" /\ tm'[t].ch[c] = "done"

FailureCounters == rstats.teams_denied + stats.files_error

ChannelsRunning(t) == {c \in Channels : tm[t].ch[c] \in {"start", "walk"}}

\* C25: the site drives pass of a team starts only when no channel task of
\* the team is still running, none runs during the pass, and the hint the
\* pass receives, if any, is the site id a channel of this team returned.
C25_SitePassAfterChannelPass ==
    [][ \A t \in Teams :
          /\ (tm[t].pc # "site" /\ tm'[t].pc = "site")
             => /\ ChannelsRunning(t) = {}
                /\ tm'[t].site = (\E c \in Channels : tm[t].ch[c] = "done_site")
          /\ (tm[t].pc \in {"site", "libs"}) => ChannelsRunning(t)' = {} ]_vars

\* A team starts its site drives pass with a hint after two channels, of
\* which one returned a site id.
C25_Witness ==
    \E t \in Teams :
        /\ tm[t].pc = "site"
        /\ tm[t].site
        /\ \A c \in Channels : tm[t].ch[c] = "done"

\* C29: list_channels is attempted at most MAX_CHANNEL_RETRIES + 1 times for
\* a team; every attempt but the first follows a forbidden error and a wait;
\* and get_primary_channel is called only when those attempts are used up.
C29_ChannelRetryBounded ==
    \A t \in Teams :
        /\ tm[t].nlist <= MAX_CHANNEL_RETRIES + 1
        /\ tm[t].forbidden >= tm[t].nlist - 1
        /\ tm[t].attempt - 1 <= MAX_CHANNEL_RETRIES
        /\ tm[t].pc = "channels" => tm[t].nlist = tm[t].attempt - 1
        /\ tm[t].nlist >= 1 => (tm[t].pc # "channels" /\ tm[t].attempt = tm[t].nlist)
        /\ tm[t].nprimary >= 1 => tm[t].nlist = MAX_CHANNEL_RETRIES + 1

\* The fallback of a team was tried after the last allowed attempt was
\* forbidden.
C29_Witness ==
    \E t \in Teams :
        /\ tm[t].nprimary = 1
        /\ tm[t].nlist = MAX_CHANNEL_RETRIES + 1
        /\ tm[t].forbidden = tm[t].nlist

\* C39: when list_channels fails with an error that is not forbidden, no
\* further listing attempt is made and get_primary_channel is called exactly
\* once, the team being counted as fallback when that call returns and as
\* denied when it raises; when list_channels succeeds, get_primary_channel is
\* not called for the team and neither counter changes.
C39_FallbackOnAnyListingError ==
    [][ \A t \in Teams :
          /\ (tm[t].pc = "channels" /\ tm'[t].nlist = tm[t].nlist + 1
                /\ tm'[t].forbidden = tm[t].forbidden /\ tm'[t].pc # "chanpass")
             => /\ tm'[t].pc = "primary"
                /\ tm'[t].nlist = 1
                /\ tm'[t].nprimary = 0
                /\ rstats' = rstats
          /\ (tm[t].pc = "primary" /\ tm'[t] # tm[t])
             => /\ tm'[t].nlist = tm[t].nlist
                /\ tm'[t].nprimary = 1
                /\ \/ /\ tm'[t].primary = "ok"
                      /\ tm'[t].pc = "chanpass"
                      /\ rstats' = [rstats EXCEPT !.teams_fallback = @ + 1]
                   \/ /\ tm'[t].primary = "fail"
                      /\ tm'[t].pc = "site"
                      /\ rstats' = [rstats EXCEPT !.teams_denied = @ + 1]
          /\ (tm[t].pc = "channels" /\ tm'[t].pc = "chanpass")
             => /\ tm'[t].nprimary = 0
                /\ rstats' = rstats
          /\ (tm[t].pc # "primary" /\ tm'[t] # tm[t])
             => /\ tm'[t].nprimary = tm[t].nprimary
                /\ tm'[t].nlist <= 1
                /\ tm'[t].fb = tm[t].fb /\ tm'[t].dn = tm[t].dn ]_vars

\* The only listing attempt of a team failed with an error that is not
\* forbidden, and the team ended as a fallback team.
C39_Witness ==
    \E t \in Teams :
        /\ tm[t].nlist = 1
        /\ tm[t].forbidden = 0
        /\ tm[t].nprimary = 1
        /\ tm[t].primary = "ok"
        /\ tm[t].fb = 1 /\ tm[t].dn = 0

\* C10: once a remote call of the run has raised the 401 error, scrape_all
\* does not return the stats.
C10_UnauthorizedPropagates == seen401 => run.pc # "returned"

----------------------------------------------------------------------------
(* SpecSite: one call of _process_site_drives, with the outcome of every     *)
(* remote call and of upsert_class picked by the environment.                *)

InitSite ==
    /\ catalog = [i \in Items |-> NoRecord]
    /\ remote  = [i \in Items |-> 1]
    /\ localfs = [i \in Items |-> Absent]
    /\ backups = NoBackups
    /\ s3      = [i \in Items |-> Absent]
    /\ bucket  = FALSE
    /\ sem     = DOWNLOAD_CONCURRENCY
    /\ stats   = [files_new |-> 0, files_skipped |-> 0, files_error |-> 0]
    /\ task    = [t \in Tasks |-> IdleTask]
    /\ cl      = ClientOff
    /\ run     = RunOff
    /\ rstats  = ZeroRunStats
    /\ tm      = [t \in Teams |-> IdleTeam]
    /\ seen401 = FALSE
    /\ wk      = NoWalk
    /\ sr      = SiteOff
    /\ pg      = PageOff
    /\ rp      = ProfOff

siteOthers == <<syncVars, cl, runVars, wk, pg, rp>>

\* The remote call made, with what came of it.
Called(st, c, r) == [st EXCEPT !.calls = Append(@, [c |-> c, r |-> r])]

\* _get_site_id_for_team, lines 253-293: the loop goes to its next drive
\* lookup; after the last one the function returns None and
\* _process_site_drives returns at `if not site_id`.
NextStrategy(st) ==
    IF st.d < Len(DriveLookups)
    THEN [st EXCEPT !.pc = "drive", !.d = @ + 1]
    ELSE [st EXCEPT !.pc = "end"]

\* _process_site_drives, lines 315-319 with _get_site_id_for_team, lines
\* 250-251: called with or without the hint of the channel pass; a hint is
\* returned as the site id at once.
SitePassCall ==
    /\ sr.pc = "off"
    /\ \E known \in {None, "hint"} :
        sr' = IF has_hint(known)
              THEN [sr EXCEPT !.pc = "list_drives", !.known = known, !.site_id = known]
              ELSE [sr EXCEPT !.pc = "drive", !.known = known, !.d = 1]
    /\ UNCHANGED siteOthers

\* _get_site_id_for_team, lines 257-261: the drive lookup raises; logged,
\* `continue`.
SiteDriveRaises ==
    /\ sr.pc = "drive"
    /\ sr' = NextStrategy(Called(sr, DriveLookups[sr.d], "raised"))
    /\ UNCHANGED siteOthers

\* (drive.get("parentReference") or {}).get("siteId")
\*     or (drive.get("sharePointIds") or {}).get("siteId")
drive_site_id(pr, sp) == IF pr # None THEN pr ELSE sp

\* _get_site_id_for_team, lines 257-274: the drive lookup returns a drive. A
\* siteId in its fields is returned; without one, a webUrl holding "/sites/"
\* is parsed for the site lookup; without that either, the loop goes on.
SiteDriveReturns ==
    /\ sr.pc = "drive"
    /\ \E pr \in {None, "fields"}, sp \in {None, "fields"}, url \in {"sites", "other"} :
        LET sid == drive_site_id(pr, sp)
            c   == DriveLookups[sr.d]
        IN  sr' = IF sid # None
                  THEN [Called(sr, c, "site_id") EXCEPT !.pc = "list_drives", !.site_id = sid]
                  ELSE IF url = "sites"
                  THEN [Called(sr, c, "web_url") EXCEPT !.pc = "weburl"]
                  ELSE NextStrategy(Called(sr, c, "nothing"))
    /\ UNCHANGED siteOthers

\* _get_site_id_for_team, lines 280-290: get_site_by_url returns a site with
\* an id (returned), or a site without one, or raises (logged); in the last
\* two cases the loop goes on.
SiteByUrl ==
    /\ sr.pc = "weburl"
    /\ \E out \in {"site_id", "no_id", "raised"} :
        sr' = IF out = "site_id"
              THEN [Called(sr, "get_site_by_url", out) EXCEPT
                        !.pc = "list_drives", !.site_id = "url"]
              ELSE NextStrategy(Called(sr, "get_site_by_url", out))
    /\ UNCHANGED siteOthers

\* _process_site_drives, lines 321-325: list_site_drives raises; logged, the
\* pass returns.
SiteListDrivesRaises ==
    /\ sr.pc = "list_drives"
    /\ sr' = [sr EXCEPT !.pc = "end"]
    /\ UNCHANGED siteOthers

\* _process_site_drives, lines 321-327: list_site_drives returns the
\* libraries of the site.
SiteListDrives ==
    /\ sr.pc = "list_drives"
    /\ \E L \in SUBSET LibNames :
        LET In(n) == n \in L
            ds == SelectSeq(LibOrder, In)
        IN  sr' = [sr EXCEPT !.drives = ds, !.k = 1,
                             !.did = [j \in 1..Len(ds) |-> NoLibWork],
                             !.pc = IF ds = << >> THEN "end" ELSE "loop"]
    /\ UNCHANGED siteOthers

\* The `for drive in drives` loop goes to its next library, or ends.
NextLibrary(st) ==
    IF st.k < Len(st.drives) THEN [st EXCEPT !.k = @ + 1] ELSE [st EXCEPT !.pc = "end"]

\* _process_site_drives, lines 328-360: one pass of the loop body. A default
\* library is skipped by `continue`. For any other, upsert_class is awaited
\* (outside any try: when it raises the exception leaves the pass), then
\* get_drive_root (raising is logged, `continue`), then _walk_folder.
SiteLibrary ==
    /\ sr.pc = "loop"
    /\ \E out \in {"upsert_raises", "no_root", "walked"} :
        LET k == sr.k
        IN  sr' = IF is_default_library(sr.drives[k])
                  THEN NextLibrary(sr)
                  ELSE IF out = "upsert_raises"
                  THEN [sr EXCEPT !.did[k].upsert = @ + 1, !.pc = "raised"]
                  ELSE IF out = "no_root"
                  THEN NextLibrary([sr EXCEPT !.did[k].upsert = @ + 1,
                                              !.did[k].root = @ + 1])
                  ELSE NextLibrary([sr EXCEPT !.did[k].upsert = @ + 1,
                                              !.did[k].root = @ + 1,
                                              !.did[k].walk = @ + 1])
    /\ UNCHANGED siteOthers

NextSite ==
    \/ SitePassCall
    \/ SiteDriveRaises
    \/ SiteDriveReturns
    \/ SiteByUrl
    \/ SiteListDrivesRaises
    \/ SiteListDrives
    \/ SiteLibrary

SpecSite == InitSite /\ [][NextSite]_vars

\* _get_site_id_for_team has returned.
SiteResolved == sr.pc \in {"list_drives", "loop", "end", "raised"}

NumCalls == Len(sr.calls)

\* C26: with a hint the site id is the hint and no remote call is made.
\* Without one the group drive is looked up before the team drive; the site
\* lookup by URL follows only a drive lookup whose fields gave no site id,
\* and follows every such lookup whose webUrl names a site; a call that gives
\* a site id is the last; and None is returned only when both drive lookups
\* and every site lookup they led to gave none.
C26_SiteIdResolutionOrder ==
    /\ sr.known # None => (sr.calls = << >> /\ sr.site_id = sr.known)
    /\ \A p \in 1..NumCalls :
        /\ sr.calls[p].r = "site_id" => p = NumCalls
        /\ sr.calls[p].c = "get_site_by_url"
           => (p > 1 /\ sr.calls[p - 1].c # "get_site_by_url"
                     /\ sr.calls[p - 1].r = "web_url")
        /\ sr.calls[p].c = "get_team_drive"
           => \E q \in 1..(p - 1) : sr.calls[q].c = "get_group_drive"
        /\ (sr.calls[p].r = "web_url" /\ p < NumCalls)
           => sr.calls[p + 1].c = "get_site_by_url"
    /\ (SiteResolved /\ sr.known = None /\ sr.site_id # None)
       => (NumCalls >= 1 /\ sr.calls[NumCalls].r = "site_id")
    /\ (SiteResolved /\ sr.site_id = None)
       => /\ \A c \in {"get_group_drive", "get_team_drive"} :
                \E p \in 1..NumCalls : sr.calls[p].c = c
          /\ \A p \in 1..NumCalls : sr.calls[p].r \notin {"site_id"}
          /\ sr.calls[NumCalls].r # "web_url"
          /\ sr.pc = "end" /\ sr.drives = << >>

\* The site id came from the site lookup the team drive's webUrl led to,
\* after the group drive's had failed.
C26_Witness ==
    /\ NumCalls = 4
    /\ sr.calls[2].r = "raised"
    /\ sr.site_id = "url"
    /\ sr.pc = "list_drives"

\* C27: a library whose name, lowered, is a default-library name gets no
\* class upsert, no root lookup and no walk; any other library is upserted,
\* looked up and walked at most once, and walked only after both.
C27_DefaultLibrariesSkipped ==
    \A j \in 1..Len(sr.drives) :
        /\ lower(sr.drives[j]) \in {"documents", "arquivos", "documentos"}
           => sr.did[j] = NoLibWork
        /\ sr.did[j].walk <= 1 /\ sr.did[j].root <= 1 /\ sr.did[j].upsert <= 1
        /\ sr.did[j].walk <= sr.did[j].root /\ sr.did[j].root <= sr.did[j].upsert
        /\ (j < sr.k \/ sr.pc = "end")
           => (lower(sr.drives[j]) \in {"documents", "arquivos", "documentos"}
               \/ sr.did[j].upsert = 1)

\* The pass has ended on a site with three default libraries spelt in
\* different cases and one other library: only that one was walked.
C27_Witness ==
    /\ sr.pc = "end"
    /\ sr.drives = <<"Documents", "Aulas", "DOCUMENTOS", "arquivos">>
    /\ sr.did[2].walk = 1
    /\ sr.did[1] = NoLibWork /\ sr.did[3] = NoLibWork /\ sr.did[4] = NoLibWork

----------------------------------------------------------------------------
(* SpecPage: one call of GraphClient._get_all against a server that holds    *)
(* the listing as a chain of pages                                           *)

MaxPages == 3       \* pages of one listing
MaxItems == 2       \* items of one page

FirstUrl == 1       \* the url _get_all is called with; page k is behind url k
NoLink   == 0       \* data.get("@odata.nextLink") of a page without the key

\* The items of page k, n of them: no item is on two pages.
PageItems(k, n) == [j \in 1..n |-> 10 * k + j]

\* What a page can look like: n items under "value", or no "value" key.
PageShapes == {sh \in [n : 0..MaxItems, keyed : BOOLEAN] : sh.n > 0 => sh.keyed}

\* The body of page k: every page but the last carries the link of the next.
PageBody(k, sh, last) ==
    [keyed |-> sh.keyed, value |-> PageItems(k, sh.n),
     link |-> IF last THEN NoLink ELSE k + 1]

PageChains ==
    UNION {{[k \in 1..n |-> PageBody(k, f[k], k = n)] : f \in [1..n -> PageShapes]}
           : n \in 1..MaxPages}

\* _get_all, lines 107-108, called with or without query parameters.
InitPage ==
    /\ catalog = [i \in Items |-> NoRecord]
    /\ remote  = [i \in Items |-> 1]
    /\ localfs = [i \in Items |-> Absent]
    /\ backups = NoBackups
    /\ s3      = [i \in Items |-> Absent]
    /\ bucket  = FALSE
    /\ sem     = DOWNLOAD_CONCURRENCY
    /\ stats   = [files_new |-> 0, files_skipped |-> 0, files_error |-> 0]
    /\ task    = [t \in Tasks |-> IdleTask]
    /\ cl      = ClientOff
    /\ run     = RunOff
    /\ rstats  = ZeroRunStats
    /\ tm      = [t \in Teams |-> IdleTeam]
    /\ seen401 = FALSE
    /\ wk      = NoWalk
    /\ sr      = SiteOff
    /\ rp      = ProfOff
    /\ \E ch \in PageChains, params \in BOOLEAN :
        pg = [pc |-> "loop", pages |-> ch, params |-> params, next_url |-> FirstUrl,
              results |-> << >>, reqs |-> << >>, ret |-> None]

pageOthers == <<syncVars, cl, runVars, wk, sr, rp>>

\* A listing that sends the query parameters with every page request.
page_params_Always(next_url, url, params) == params

\* _get_all, line 110: `**(params if next_url == url else {})`.
page_params(next_url, url, params) == IF next_url = url THEN params ELSE FALSE

\* A listing that keeps the items of the last page only.
extend_Replace(results, data) == IF data.keyed THEN data.value ELSE << >>

\* _get_all, line 111: results.extend(data.get("value", [])).
extend(results, data) == results \o (IF data.keyed THEN data.value ELSE << >>)

\* `while next_url:` line 109.
truthy(next_url) == next_url # NoLink

\* _get_all, lines 109-113: _get returns the page behind next_url; its items
\* are appended, next_url becomes its link, and with no link the loop ends
\* and the results are returned.
GetAllPage ==
    /\ pg.pc = "loop"
    /\ truthy(pg.next_url)
    /\ LET data == pg.pages[pg.next_url]
           res  == extend(pg.results, data)
           sent == [url |-> pg.next_url,
                    params |-> page_params(pg.next_url, FirstUrl, pg.params)]
       IN  pg' = [pg EXCEPT !.reqs = Append(@, sent),
                            !.results = res,
                            !.next_url = data.link,
                            !.pc = IF truthy(data.link) THEN "loop" ELSE "returned",
                            !.ret = IF truthy(data.link) THEN None ELSE res]
    /\ UNCHANGED pageOthers

\* _get_all, line 110: _get raises (the retries are used up, the token is
\* expired, the status is an error); nothing in _get_all catches it, and the
\* results gathered so far go with the frame.
GetAllPageRaises ==
    /\ pg.pc = "loop"
    /\ truthy(pg.next_url)
    /\ LET sent == [url |-> pg.next_url,
                    params |-> page_params(pg.next_url, FirstUrl, pg.params)]
       IN  pg' = [pg EXCEPT !.reqs = Append(@, sent), !.pc = "raised"]
    /\ UNCHANGED pageOthers

NextPage ==
    \/ GetAllPage
    \/ GetAllPageRaises

SpecPage == InitPage /\ [][NextPage]_vars

RECURSIVE ConcatPages(_, _)
\* The items of the first n pages, in page order.
ConcatPages(pages, n) ==
    IF n = 0 THEN << >>
    ELSE ConcatPages(pages, n - 1)
         \o (IF pages[n].keyed THEN pages[n].value ELSE << >>)

\* C34: _get_all requests the pages in the order of their links, the first
\* with the caller's query parameters and the others without; when a page
\* has no link it returns the items of all pages in page order, each item
\* once; and when a request raises, the call raises and returns no items.
C34_Pagination ==
    /\ pg.pc # "off"
       => /\ \A k \in 1..Len(pg.reqs) :
                /\ pg.reqs[k].url = k
                /\ pg.reqs[k].params = (k = 1 /\ pg.params)
          /\ Len(pg.reqs) <= Len(pg.pages)
    /\ pg.pc = "loop"
       => /\ pg.next_url = Len(pg.reqs) + 1
          /\ pg.results = ConcatPages(pg.pages, Len(pg.reqs))
          /\ pg.ret = None
    /\ pg.pc = "returned"
       => /\ Len(pg.reqs) = Len(pg.pages)
          /\ pg.ret = ConcatPages(pg.pages, Len(pg.pages))
          /\ \A i, j \in 1..Len(pg.ret) : i # j => pg.ret[i] # pg.ret[j]
          /\ \A k \in 1..Len(pg.pages) : \A j \in 1..Len(pg.pages[k].value) :
                \E i \in 1..Len(pg.ret) : pg.ret[i] = pg.pages[k].value[j]
    /\ pg.pc = "raised" => pg.ret = None

\* A listing called with query parameters has returned the items of three
\* pages, of which the second had none.
C34_Witness ==
    /\ pg.pc = "returned"
    /\ pg.params
    /\ Len(pg.pages) = 3
    /\ pg.ret = <<11, 12, 31>>

----------------------------------------------------------------------------
(* SpecProf: _resolve_professor for one team, and the passes _process_team   *)
(* hands its result to                                                       *)

MaxMembers == 2     \* members get_team_members returns

\* A member of the listing: whether its roles hold "owner", whether it has a
\* displayName, and which of email and userId it carries.
Members == [owner : BOOLEAN, named : BOOLEAN, contact : {"email", "userId", "none"}]

MemberLists == UNION {[1..n -> Members] : n \in 0..MaxMembers}

\* _process_team, line 445: `await _resolve_professor(graph, pool, team_id)`.
InitProf ==
    /\ catalog = [i \in Items |-> NoRecord]
    /\ remote  = [i \in Items |-> 1]
    /\ localfs = [i \in Items |-> Absent]
    /\ backups = NoBackups
    /\ s3      = [i \in Items |-> Absent]
    /\ bucket  = FALSE
    /\ sem     = DOWNLOAD_CONCURRENCY
    /\ stats   = [files_new |-> 0, files_skipped |-> 0, files_error |-> 0]
    /\ task    = [t \in Tasks |-> IdleTask]
    /\ cl      = ClientOff
    /\ run     = RunOff
    /\ rstats  = ZeroRunStats
    /\ tm      = [t \in Teams |-> IdleTeam]
    /\ seen401 = FALSE
    /\ wk      = NoWalk
    /\ sr      = SiteOff
    /\ pg      = PageOff
    /\ rp      = [ProfOff EXCEPT !.pc = "members"]

profOthers == <<syncVars, cl, runVars, wk, sr, pg>>

\* A try that takes the errors of the remote listing only.
ProfCaught_RemoteOnly(call) == call = "get_team_members"

\* _resolve_professor, lines 82-90: get_team_members and upsert_professor are
\* both awaited inside the try, and `except Exception` takes what either
\* raises.
ProfCaught(call) == TRUE

\* _resolve_professor, lines 89-91, or the exception leaving it: a caught
\* error is logged and None is returned; an error that is not caught leaves
\* _resolve_professor and _process_team.
ProfRaise(st, call) ==
    IF ProfCaught(call)
    THEN [st EXCEPT !.err = call, !.logged = TRUE, !.ret = None, !.pc = "returned"]
    ELSE [st EXCEPT !.err = call, !.pc = "raised"]

\* _resolve_professor, lines 84-85: the first member whose roles hold "owner",
\* or 0.
first_owner(members) ==
    IF \E k \in 1..Len(members) : members[k].owner
    THEN CHOOSE k \in 1..Len(members) :
            /\ members[k].owner
            /\ \A j \in 1..(k - 1) : ~members[j].owner
    ELSE 0

\* _resolve_professor, lines 86-87: name is the displayName or "Unknown";
\* email is the email, or the userId, or "unknown@unknown.com".
professor_args(m) ==
    [name  |-> IF m.named THEN "displayName" ELSE "Unknown",
     email |-> IF m.contact = "none" THEN "unknown@unknown.com" ELSE m.contact]

\* _resolve_professor, lines 83-85 and 91: get_team_members returns; with an
\* owner among the members upsert_professor is called for the first one,
\* without one the function returns None.
ProfMembers ==
    /\ rp.pc = "members"
    /\ \E ms \in MemberLists :
        LET k == first_owner(ms)
        IN  rp' = IF k = 0
                  THEN [rp EXCEPT !.members = ms, !.ret = None, !.pc = "returned"]
                  ELSE [rp EXCEPT !.members = ms, !.args = professor_args(ms[k]),
                                  !.pc = "upsert"]
    /\ UNCHANGED profOthers

\* _resolve_professor, line 83: get_team_members raises.
ProfMembersRaises ==
    /\ rp.pc = "members"
    /\ rp' = ProfRaise(rp, "get_team_members")
    /\ UNCHANGED profOthers

\* _resolve_professor, line 88: upsert_professor returns the professor's id.
ProfUpsert ==
    /\ rp.pc = "upsert"
    /\ rp' = [rp EXCEPT !.ret = "id", !.pc = "returned"]
    /\ UNCHANGED profOthers

\* _resolve_professor, line 88: upsert_professor raises.
ProfUpsertRaises ==
    /\ rp.pc = "upsert"
    /\ rp' = ProfRaise(rp, "upsert_professor")
    /\ UNCHANGED profOthers

\* _process_team, lines 445-467: professor_id is what _resolve_professor
\* returned; _get_channels_with_fallback returns the channels or None, and
\* with channels every _process_channel gets professor_id.
ProfChannelPass ==
    /\ rp.pc = "returned"
    /\ \E channels \in {"None", "list"} :
        rp' = [rp EXCEPT
                 !.passes = IF channels = "None" THEN @
                            ELSE Append(@, [pass |-> "channels", professor_id |-> rp.ret]),
                 !.pc = "site"]
    /\ UNCHANGED profOthers

\* _process_team, lines 474-481: _process_site_drives gets professor_id.
ProfSitePass ==
    /\ rp.pc = "site"
    /\ rp' = [rp EXCEPT !.passes = Append(@, [pass |-> "site", professor_id |-> rp.ret]),
                        !.pc = "done"]
    /\ UNCHANGED profOthers

NextProf ==
    \/ ProfMembers
    \/ ProfMembersRaises
    \/ ProfUpsert
    \/ ProfUpsertRaises
    \/ ProfChannelPass
    \/ ProfSitePass

SpecProf == InitProf /\ [][NextProf]_vars

\* C36: an error of get_team_members or of upsert_professor does not leave
\* _resolve_professor: it is logged and None is returned; the channel pass
\* (when the team has channels) and the site drives pass then run with that
\* result as their professor_id, None after an error or without an owner.
C36_OwnerBestEffort ==
    /\ rp.pc # "raised"
    /\ rp.err # "none"
       => /\ rp.pc \in {"returned", "site", "done"}
          /\ rp.logged
          /\ rp.ret = None
    /\ rp.pc \in {"returned", "site", "done"}
       => rp.ret = (IF rp.err = "none" /\ first_owner(rp.members) # 0 THEN "id" ELSE None)
    /\ \A k \in 1..Len(rp.passes) : rp.passes[k].professor_id = rp.ret
    /\ rp.pc = "done"
       => /\ Len(rp.passes) \in {1, 2}
          /\ rp.passes[Len(rp.passes)].pass = "site"
          /\ Len(rp.passes) = 2 => rp.passes[1].pass = "channels"

\* upsert_professor raised for the owner of the team, and both passes ran
\* with no professor.
C36_Witness ==
    /\ rp.pc = "done"
    /\ rp.err = "upsert_professor"
    /\ rp.passes = <<[pass |-> "channels", professor_id |-> None],
                     [pass |-> "site", professor_id |-> None]>>

====
